---- MODULE Spec2Model ----
(***************************************************************************)
(* MusicTruth: the orchestrator of src/layers/analysis/core.py.            *)
(* Analyzer.analyze_audio selects extractors by mode, routes forensic      *)
(* extractors to separated stems and aggregates the feature scores into    *)
(* ai_probability.                                                         *)
(*                                                                         *)
(* Representation.  Extractor names are tuples of characters, so that the  *)
(* code's substring tests ("forensic" in name) are computed, not assumed.  *)
(* Scores are fixed-point tenths (ScoreOne = 1.0), weights and genre        *)
(* multipliers are fixed-point hundredths (BaseWeight = 1.0); both are      *)
(* exact for the values used, and int(weight * 10) is then w \div 10.       *)
(* ai_probability is the exact fraction [num, den] of the mean.            *)
(***************************************************************************)
EXTENDS Integers, Sequences, FiniteSets

(***************************************************************************)
(* Strings.  A name or keyword is a string; its spelling gives the         *)
(* characters, so that Python's substring test is computed on them.        *)
(***************************************************************************)
\* the extractor names, as the extractor classes set them
NameSpelling ==
    [ frequency_cutoff |->
        <<"f","r","e","q","u","e","n","c","y","_","c","u","t","o","f","f">>,
      spectral_peaks |->
        <<"s","p","e","c","t","r","a","l","_","p","e","a","k","s">>,
      mfcc_analysis |->
        <<"m","f","c","c","_","a","n","a","l","y","s","i","s">>,
      spectral_contrast |->
        <<"s","p","e","c","t","r","a","l","_","c","o","n","t","r","a","s","t">>,
      tempo_stability |->
        <<"t","e","m","p","o","_","s","t","a","b","i","l","i","t","y">>,
      key_detection |->
        <<"k","e","y","_","d","e","t","e","c","t","i","o","n">>,
      vocal_pitch |->
        <<"v","o","c","a","l","_","p","i","t","c","h">>,
      structural_analysis |->
        <<"s","t","r","u","c","t","u","r","a","l","_","a","n","a","l","y","s","i","s">>,
      midi_quantization |->
        <<"m","i","d","i","_","q","u","a","n","t","i","z","a","t","i","o","n">>,
      provider_fingerprint_suno |->
        <<"p","r","o","v","i","d","e","r","_","f","i","n","g","e","r","p","r","i","n","t","_","s","u","n","o">>,
      midi_extraction |->
        <<"m","i","d","i","_","e","x","t","r","a","c","t","i","o","n">>,
      silence_forensics |->
        <<"s","i","l","e","n","c","e","_","f","o","r","e","n","s","i","c","s">>,
      entropy_forensics |->
        <<"e","n","t","r","o","p","y","_","f","o","r","e","n","s","i","c","s">> ]

\* the keywords analyze_audio looks for in a name
KeywordSpelling ==
    [ forensic |->
        <<"f","o","r","e","n","s","i","c">>,
      silence |->
        <<"s","i","l","e","n","c","e">>,
      entropy |->
        <<"e","n","t","r","o","p","y">>,
      structural |->
        <<"s","t","r","u","c","t","u","r","a","l">>,
      midi |->
        <<"m","i","d","i">>,
      provider |->
        <<"p","r","o","v","i","d","e","r">>,
      cutoff |->
        <<"c","u","t","o","f","f">>,
      peak |->
        <<"p","e","a","k">>,
      tempo |->
        <<"t","e","m","p","o">>,
      ml |->
        <<"m","l">>,
      mfcc |->
        <<"m","f","c","c">>,
      contrast |->
        <<"c","o","n","t","r","a","s","t">>,
      vocal |->
        <<"v","o","c","a","l">>,
      quantization |->
        <<"q","u","a","n","t","i","z","a","t","i","o","n">> ]

\* Python's  pat in text  on the characters
Occurs(text, pat) ==
    \E i \in 1..(Len(text) - Len(pat) + 1) :
        SubSeq(text, i, i + Len(pat) - 1) = pat

\* the keywords each name contains
KeywordsIn ==
    [ n \in DOMAIN NameSpelling |->
        { k \in DOMAIN KeywordSpelling :
            Occurs(NameSpelling[n], KeywordSpelling[k]) } ]

\* Python's  pat in name  for an extractor name and a keyword
Contains(name, pat) ==
    pat \in KeywordsIn[name]

(***************************************************************************)
(* The extractors the factories of all_getters offer, in that order.  The  *)
(* orchestrator reads nothing of a name but the keywords it contains, and  *)
(* the 24 registered names fall into 13 classes by the keywords they       *)
(* contain; one name stands for each class (key_detection for the nine     *)
(* names with no keyword, vocal_pitch for the three "vocal" names,         *)
(* provider_fingerprint_suno for the two "provider" names).                *)
(***************************************************************************)
AllExtractors ==
    << "frequency_cutoff", "spectral_peaks", "mfcc_analysis",
       "spectral_contrast", "tempo_stability", "key_detection", "vocal_pitch",
       "structural_analysis", "midi_quantization",
       "provider_fingerprint_suno", "midi_extraction", "silence_forensics",
       "entropy_forensics" >>

\* Python's  any(k in name for k in pats)
ContainsAny(name, pats) ==
    \E p \in pats : Contains(name, p)

(***************************************************************************)
(* Bounds of the model.                                                    *)
(***************************************************************************)
\* at most this many extractors report is_available() in one registry
MaxExtractors == 2
\* analyses followed in the repeated-analysis specification
MaxRuns == 3

(***************************************************************************)
(* config: AnalysisMode, Genre, GENRE_PROFILES.                            *)
(***************************************************************************)
QUICK == "quick"
STANDARD == "standard"
DEEP == "deep"
FORENSIC == "forensic"
CUSTOM == "custom"

AnalysisMode == {QUICK, STANDARD, DEEP, FORENSIC, CUSTOM}

\* Genre enum values; GENERAL is the fallback member
GENERAL == "general"
ELECTRONIC == "electronic"

Genre == {GENERAL, ELECTRONIC}

\* a GenreProfile: four float multipliers (hundredths), default 1.0
GenreProfile(tempo, mfcc, contrast, vocal) ==
    [ tempo_stability_weight |-> tempo,
      mfcc_uniformity_weight |-> mfcc,
      spectral_contrast_weight |-> contrast,
      vocal_artifact_weight |-> vocal ]

\* the profile table: GENERAL keeps every default, the other genre
\* re-weights each category
GENRE_PROFILES ==
    [ g \in Genre |->
        IF g = GENERAL
            THEN GenreProfile(100, 100, 100, 100)
            ELSE GenreProfile(50, 125, 87, 150) ]

(***************************************************************************)
(* Fixed-point units and the weights of the aggregation.                   *)
(***************************************************************************)
\* the score 1.0, in tenths
ScoreOne == 10
\* weight = 1.0, in hundredths
BaseWeight == 100
\* weight = 2.0
TrustedWeight == 200
\* weight = 4.0
ForensicWeight == 400

(***************************************************************************)
(* What the environment can hand to one analysis.                          *)
(***************************************************************************)
FilePath == "track.wav"

\* metadata argument: None, {} or a dict with a genre string
EmptyDict == [ k \in {} |-> "" ]
MetadataArgs ==
    { [is_none |-> TRUE, dict |-> EmptyDict],
      [is_none |-> FALSE, dict |-> EmptyDict] } \cup
    { [is_none |-> FALSE, dict |-> [genre |-> g]] :
        g \in {"general", "electronic", "Polka"} }

\* separate_audio: the stems Demucs wrote, keyed by file stem
StemPath ==
    [ vocals |-> "vocals.wav", drums |-> "drums.wav",
      bass |-> "bass.wav", other |-> "other.wav" ]

StemMaps ==
    { EmptyDict, StemPath }

\* FeatureResult values an extract() call can return
FeatureResult(name, score, confidence, metrics, flags) ==
    [ feature_name |-> name, score |-> score, confidence |-> confidence,
      metrics |-> metrics, flags |-> flags, metadata |-> {} ]

\* two findings, and an extractor reporting its own failure the way
\* EssentiaFeatureExtractor and VibratoAnalyzer do: metrics={'error': ...},
\* every other field left at its dataclass default (score 0.0,
\* confidence 1.0, no flags)
ExtractResults(name) ==
    { FeatureResult(name, 4, 10, {}, << >>),
      FeatureResult(name, 9, 10, {}, << "suspicious" >>),
      FeatureResult(name, 0, ScoreOne, {"error"}, << >>) }

\* separate_audio: raises, returns {} or returns the stems
SeparationOutcomes ==
    { [raised |-> TRUE, stems |-> EmptyDict] } \cup
    { [raised |-> FALSE, stems |-> st] : st \in StemMaps }

(***************************************************************************)
(* State.                                                                  *)
(***************************************************************************)
VARIABLES
    extractors,      \* self.extractors: the registry, names in insertion order
    pc,              \* where analyze_audio stands
    mode,            \* the mode argument
    input_file_map,  \* role -> path, always holding "mix"
    idx,             \* position of the extractor loop in the registry
    results,         \* the result dict under construction
    scores,          \* the expanded score samples
    calls,           \* the extract() calls made: name and buffer handed over
    selected,        \* the names for which should_run came out True
    weights,         \* the weight each contributing feature was given
    runs,            \* analyses started so far
    prev,            \* an earlier finished aggregation: (features, genre, probability)
    separations,     \* the separate_audio calls of this analysis, by outcome
    loads,           \* the load_audio calls of this analysis: path and success
    attempts,        \* the extractors whose try block was entered, and how it ended
    aggregations,    \* times the aggregation step ran in this analysis
    offered,         \* _load_extractors: the extractors the getters return, in order
    loading,         \* _load_extractors: where it stands
    loadpos,         \* _load_extractors: the next offered extractor
    owner,           \* which offered extractor each registry entry holds
    feature_sets,    \* compare_sources: its argument
    comparison,      \* compare_sources: what it returned
    extraction,      \* one extractor called on its own: what it measured and returned
    validation       \* validate_inputs: its argument and what it returned

vars ==
    << extractors, pc, mode, input_file_map, idx, results, scores, calls,
       selected, weights, runs, prev, separations, loads, attempts,
       aggregations, offered, loading, loadpos, owner, feature_sets,
       comparison, extraction, validation >>

\* the locals of one analyze_audio call, with what is recorded about it
callvars ==
    << pc, mode, input_file_map, idx, results, scores, calls, selected,
       weights, runs, prev, separations, loads, attempts, aggregations >>

loadvars ==
    << offered, loading, loadpos, owner >>

cmpvars ==
    << feature_sets, comparison >>

toolvars ==
    << extraction, validation >>

\* no extractor was called on its own yet
NoExtraction ==
    [ extractor |-> "none" ]

\* validate_inputs was not called yet
NoValidation ==
    [ kind |-> "none" ]

(***************************************************************************)
(* Analyzer.__init__ / _load_extractors                                    *)
(***************************************************************************)
\* the extractors that end up registered, given who reports is_available()
LoadExtractors(available) ==
    SelectSeq(AllExtractors, LAMBDA e : e \in available)

Range(s) ==
    { s[i] : i \in DOMAIN s }

\* what the getters return when exactly the named extractors are available
Offered(available) ==
    [ i \in DOMAIN AllExtractors |->
        [ name |-> AllExtractors[i],
          available |-> AllExtractors[i] \in available ] ]

\* mutant: every offered extractor is registered
Registers_All(extractor) ==
    TRUE

\* if extractor.is_available():
Registers(extractor) ==
    extractor.available

\* self.extractors[name] = ...  on the keys: a new key goes last, a key
\* already there keeps its place
SetKey(keys, name) ==
    IF name \in Range(keys) THEN keys ELSE Append(keys, name)

\* self.extractors[name] = extractor  on the values: the value is stored
\* under the key, replacing the one that was there
SetValue(keys, values, name, value) ==
    IF name \in Range(keys)
        THEN [ i \in DOMAIN values |->
                 IF keys[i] = name THEN value ELSE values[i] ]
        ELSE Append(values, value)

\* position of a registered name among the offered extractors
IndexOf(name) ==
    CHOOSE i \in DOMAIN AllExtractors : AllExtractors[i] = name

NoComparison ==
    [ kind |-> "none" ]

Registries ==
    { LoadExtractors(a) :
        a \in { x \in SUBSET Range(AllExtractors) :
                  Cardinality(x) <= MaxExtractors } }

(***************************************************************************)
(* analyze_audio, step 2: mode policy and stem routing.                    *)
(***************************************************************************)
StandardExcluded ==
    {"structural", "midi", "provider", "forensic"}

QuickIncluded ==
    {"cutoff", "peak", "tempo"}

\* mutant: the DEEP branch of the chain is missing
ShouldRun_NoDeep(name, m) ==
    IF Contains(name, "forensic")
        THEN m = FORENSIC
    ELSE IF m = FORENSIC THEN TRUE
    ELSE IF m = STANDARD THEN ~ContainsAny(name, StandardExcluded)
    ELSE IF m = QUICK THEN ContainsAny(name, QuickIncluded)
    ELSE IF m = CUSTOM THEN TRUE
    ELSE FALSE

\* mutant: the CUSTOM branch of the chain is missing
ShouldRun_NoCustom(name, m) ==
    IF Contains(name, "forensic")
        THEN m = FORENSIC
    ELSE IF m = FORENSIC THEN TRUE
    ELSE IF m = DEEP THEN TRUE
    ELSE IF m = STANDARD THEN ~ContainsAny(name, StandardExcluded)
    ELSE IF m = QUICK THEN ContainsAny(name, QuickIncluded)
    ELSE FALSE

\* mutant: STANDARD forgets to exclude the "midi" names
ShouldRun_StandardKeepsMidi(name, m) ==
    IF Contains(name, "forensic")
        THEN m = FORENSIC
    ELSE IF m = FORENSIC THEN TRUE
    ELSE IF m = DEEP THEN TRUE
    ELSE IF m = STANDARD
        THEN ~ContainsAny(name, StandardExcluded \ {"midi"})
    ELSE IF m = QUICK THEN ContainsAny(name, QuickIncluded)
    ELSE IF m = CUSTOM THEN TRUE
    ELSE FALSE

\* should_run, as the if/elif chain over the mode decides it
ShouldRun(name, m) ==
    IF Contains(name, "forensic")
        THEN m = FORENSIC
    ELSE IF m = FORENSIC THEN TRUE
    ELSE IF m = DEEP THEN TRUE
    ELSE IF m = STANDARD THEN ~ContainsAny(name, StandardExcluded)
    ELSE IF m = QUICK THEN ContainsAny(name, QuickIncluded)
    ELSE IF m = CUSTOM THEN TRUE
    ELSE FALSE

\* mutant: only the silence extractor is routed to the "other" stem
TargetRole_SilenceOnly(name, m, ifm) ==
    IF Contains(name, "forensic") /\ m = FORENSIC
        THEN IF Contains(name, "silence") /\ "other" \in DOMAIN ifm
                THEN "other"
                ELSE "mix"
        ELSE "mix"

\* the role whose file becomes target_audio
TargetRole(name, m, ifm) ==
    IF Contains(name, "forensic") /\ m = FORENSIC
        THEN IF Contains(name, "silence") /\ "other" \in DOMAIN ifm
                THEN "other"
             ELSE IF Contains(name, "entropy") /\ "other" \in DOMAIN ifm
                THEN "other"
             ELSE "mix"
        ELSE "mix"

TargetAudio(name, m, ifm) ==
    ifm[TargetRole(name, m, ifm)]

\* input_file_map.update(stems)
DictUpdate(d, u) ==
    [ k \in DOMAIN d \cup DOMAIN u |-> IF k \in DOMAIN u THEN u[k] ELSE d[k] ]

\* FeatureResult.to_dict
ToDict(res) ==
    [ feature_name |-> res.feature_name, score |-> res.score,
      confidence |-> res.confidence, metrics |-> res.metrics,
      flags |-> res.flags, metadata |-> res.metadata ]

(***************************************************************************)
(* analyze_audio, step 3: aggregation with genre adaptation.               *)
(***************************************************************************)
\* Genre(genre_str) with the ValueError fallback
ResolveGenre(metadata) ==
    LET genre_str == IF "genre" \in DOMAIN metadata
                        THEN metadata["genre"] ELSE "general"
    IN  IF genre_str \in Genre THEN genre_str ELSE GENERAL

\* GENRE_PROFILES.get(genre_name, GENRE_PROFILES[Genre.GENERAL])
ProfileOf(genre_name) ==
    IF genre_name \in DOMAIN GENRE_PROFILES
        THEN GENRE_PROFILES[genre_name]
        ELSE GENRE_PROFILES[GENERAL]

\* mutant: only "ml" names are trusted more, "provider" names are not
NameWeight_NoProvider(name) ==
    LET w1 == IF Contains(name, "ml") THEN TrustedWeight ELSE BaseWeight
    IN  IF Contains(name, "forensic") THEN ForensicWeight ELSE w1

\* weight before genre adaptation
NameWeight(name) ==
    LET w1 == IF Contains(name, "ml") \/ Contains(name, "provider")
                 THEN TrustedWeight ELSE BaseWeight
    IN  IF Contains(name, "forensic") THEN ForensicWeight ELSE w1

\* weight *= multiplier, in hundredths
Times(weight, multiplier) ==
    (weight * multiplier) \div BaseWeight

\* mutant: the vocal multiplier is not applied to "quantization" names
GenreWeight_NoQuantization(name, weight, genre_name, profile) ==
    IF genre_name # GENERAL
        THEN IF Contains(name, "tempo")
                THEN Times(weight, profile.tempo_stability_weight)
             ELSE IF Contains(name, "mfcc")
                THEN Times(weight, profile.mfcc_uniformity_weight)
             ELSE IF Contains(name, "contrast")
                THEN Times(weight, profile.spectral_contrast_weight)
             ELSE IF Contains(name, "vocal")
                THEN Times(weight, profile.vocal_artifact_weight)
             ELSE weight
        ELSE weight

\* the genre adaptation of the weight
GenreWeight(name, weight, genre_name, profile) ==
    IF genre_name # GENERAL
        THEN IF Contains(name, "tempo")
                THEN Times(weight, profile.tempo_stability_weight)
             ELSE IF Contains(name, "mfcc")
                THEN Times(weight, profile.mfcc_uniformity_weight)
             ELSE IF Contains(name, "contrast")
                THEN Times(weight, profile.spectral_contrast_weight)
             ELSE IF Contains(name, "vocal") \/ Contains(name, "quantization")
                THEN Times(weight, profile.vocal_artifact_weight)
             ELSE weight
        ELSE weight

FinalWeight(name, genre_name) ==
    GenreWeight(name, NameWeight(name), genre_name, ProfileOf(genre_name))

Max(a, b) ==
    IF a >= b THEN a ELSE b

\* mutant: the product is rounded half up instead of truncated
Copies_Rounded(weight) ==
    Max(1, (weight + 5) \div 10)

\* int(max(1, weight * 10)): the number of samples of one score
Copies(weight) ==
    Max(1, weight \div 10)

Repeat(x, n) ==
    [ i \in 1..n |-> x ]

\* mutant: every feature contributes, whatever its score
Contributes_Any(score) ==
    TRUE

\* if score > 0:
Contributes(score) ==
    score > 0

\* the loop over results["features"]: scores after features[1..n]
RECURSIVE Expand(_, _, _, _)
Expand(start, features, n, genre_name) ==
    IF n = 0
        THEN start
        ELSE LET f == features[n]
                 before == Expand(start, features, n - 1, genre_name)
             IN  IF Contributes(f.res.score)
                    THEN before \o Repeat(f.res.score,
                                          Copies(FinalWeight(f.name, genre_name)))
                    ELSE before

\* the local variable weight of the same loop: before and after adaptation
RECURSIVE WeightLog(_, _, _)
WeightLog(features, n, genre_name) ==
    IF n = 0
        THEN << >>
        ELSE LET f == features[n]
                 before == WeightLog(features, n - 1, genre_name)
             IN  IF f.res.score > 0
                    THEN Append(before,
                                [ name |-> f.name,
                                  base |-> NameWeight(f.name),
                                  final |-> FinalWeight(f.name, genre_name) ])
                    ELSE before

RECURSIVE SumSeq(_, _)
SumSeq(s, n) ==
    IF n = 0 THEN 0 ELSE s[n] + SumSeq(s, n - 1)

\* mutant: the samples are summed, not averaged
MeanOrZero_Sum(s) ==
    IF Len(s) > 0
        THEN [num |-> SumSeq(s, Len(s)), den |-> ScoreOne]
        ELSE [num |-> 0, den |-> 1]

\* float(np.mean(scores)) as an exact fraction, 0.0 for no samples
MeanOrZero(s) ==
    IF Len(s) > 0
        THEN [num |-> SumSeq(s, Len(s)), den |-> Len(s) * ScoreOne]
        ELSE [num |-> 0, den |-> 1]

\* mutant: the samples of the previous call are kept
FreshScores_Stale(old) ==
    old

\* scores = []
FreshScores(old) ==
    << >>

(***************************************************************************)
(* Init: a constructed Analyzer, no analysis running.                      *)
(***************************************************************************)
NoResults ==
    [ kind |-> "none" ]

NoPrev ==
    [ kind |-> "none" ]

InitWith(registries) ==
    /\ extractors \in registries
    /\ pc = "idle"
    /\ mode = STANDARD
    /\ input_file_map = EmptyDict
    /\ idx = 0
    /\ results = NoResults
    /\ scores = << >>
    /\ calls = << >>
    /\ selected = {}
    /\ weights = << >>
    /\ runs = 0
    /\ prev = NoPrev
    /\ separations = << >>
    /\ loads = << >>
    /\ attempts = << >>
    /\ aggregations = 0
    /\ offered = Offered(Range(extractors))
    /\ loading = "loaded"
    /\ loadpos = Len(AllExtractors) + 1
    /\ owner = [ i \in DOMAIN extractors |-> IndexOf(extractors[i]) ]
    /\ feature_sets = << >>
    /\ comparison = NoComparison
    /\ extraction = NoExtraction
    /\ validation = NoValidation

Init ==
    InitWith(Registries)

(***************************************************************************)
(* analyze_audio                                                           *)
(***************************************************************************)
\* one load_audio call
Load(path, ok) ==
    [ path |-> path, ok |-> ok ]

\* os.path.exists(file_path) is false: raise FileNotFoundError
AnalyzeFileNotFound ==
    /\ pc = "idle"
    /\ runs < MaxRuns
    /\ pc' = "raised"
    /\ runs' = runs + 1
    /\ UNCHANGED << loadvars, cmpvars, toolvars >>
    /\ UNCHANGED << extractors, mode, input_file_map, idx, results, scores,
                    calls, selected, weights, prev, separations, loads,
                    attempts, aggregations >>

\* mutant: an undecodable file raises
AnalyzeLoadFailed_Raises ==
    /\ pc = "idle"
    /\ runs < MaxRuns
    /\ pc' = "raised"
    /\ loads' = << Load(FilePath, FALSE) >>
    /\ runs' = runs + 1
    /\ UNCHANGED << loadvars, cmpvars, toolvars >>
    /\ UNCHANGED << extractors, mode, input_file_map, idx, results, scores,
                    calls, selected, weights, prev, separations, attempts,
                    aggregations >>

\* load_audio raises: return {"error": ...}
AnalyzeLoadFailed ==
    /\ pc = "idle"
    /\ runs < MaxRuns
    /\ pc' = "returned"
    /\ results' = [ kind |-> "error" ]
    /\ loads' = << Load(FilePath, FALSE) >>
    /\ runs' = runs + 1
    /\ UNCHANGED << loadvars, cmpvars, toolvars >>
    /\ UNCHANGED << extractors, mode, input_file_map, idx, scores, calls,
                    selected, weights, prev, separations, attempts,
                    aggregations >>

\* mutant: DEEP mode separates stems as well
AfterBegin_DeepToo(m) ==
    IF m \in {FORENSIC, DEEP} THEN "separate" ELSE "extract"

\* if mode == AnalysisMode.FORENSIC: separate first, else straight to the loop
AfterBegin(m) ==
    IF m = FORENSIC THEN "separate" ELSE "extract"

\* the file exists and decodes: build results, scores and input_file_map
AnalyzeBegin ==
    /\ pc = "idle"
    /\ runs < MaxRuns
    /\ \E m \in AnalysisMode, md \in MetadataArgs :
        /\ mode' = m
        /\ results' =
              [ kind |-> "result",
                filename |-> FilePath,
                mode |-> m,
                features |-> << >>,
                flags |-> << >>,
                ai_probability |-> [num |-> 0, den |-> 1],
                metadata |-> IF md.is_none THEN EmptyDict ELSE md.dict ]
        /\ pc' = AfterBegin(m)
    /\ scores' = FreshScores(scores)
    /\ input_file_map' = [ mix |-> FilePath ]
    /\ idx' = 1
    /\ calls' = << >>
    /\ selected' = {}
    /\ weights' = << >>
    /\ separations' = << >>
    /\ loads' = << Load(FilePath, TRUE) >>
    /\ attempts' = << >>
    /\ aggregations' = 0
    /\ runs' = runs + 1
    /\ UNCHANGED << loadvars, cmpvars, toolvars >>
    /\ UNCHANGED << extractors, prev >>

\* mutant: an exception of separate_audio leaves analyze_audio
AfterSeparation_Propagates(out) ==
    IF out.raised THEN "raised" ELSE "extract"

\* the try/except around separate_audio: whatever it did, go on to the loop
AfterSeparation(out) ==
    "extract"

\* FORENSIC only: separate_audio returns stems, returns {} or raises
ForensicSeparation ==
    /\ pc = "separate"
    /\ \E out \in SeparationOutcomes :
        /\ input_file_map' =
              IF ~out.raised /\ DOMAIN out.stems # {}
                  THEN DictUpdate(input_file_map, out.stems)
                  ELSE input_file_map
        /\ separations' = Append(separations, out)
        /\ pc' = AfterSeparation(out)
    /\ UNCHANGED << loadvars, cmpvars, toolvars >>
    /\ UNCHANGED << extractors, mode, idx, results, scores, calls, selected,
                    weights, runs, prev, loads, attempts, aggregations >>

InLoop ==
    /\ pc = "extract"
    /\ idx <= Len(extractors)

\* should_run is False: next extractor
SkipExtractor ==
    /\ InLoop
    /\ ~ShouldRun(extractors[idx], mode)
    /\ idx' = idx + 1
    /\ UNCHANGED << loadvars, cmpvars, toolvars >>
    /\ UNCHANGED << extractors, pc, mode, input_file_map, results, scores,
                    calls, selected, weights, runs, prev, separations, loads,
                    attempts, aggregations >>

\* one pass through the try block of a selected extractor
Attempt(name, outcome) ==
    [ name |-> name, outcome |-> outcome ]

\* load_audio(target_audio) is called only for a target other than file_path
StemLoads(old, target) ==
    IF target # FilePath THEN Append(old, Load(target, TRUE)) ELSE old

\* mutant: an extractor whose stem cannot be loaded is run on the mix
StemLoadFails_FallsBack ==
    /\ InLoop
    /\ ShouldRun(extractors[idx], mode)
    /\ TargetAudio(extractors[idx], mode, input_file_map) # FilePath
    /\ \E res \in ExtractResults(extractors[idx]) :
        results' =
            [ results EXCEPT
                !.features = Append(@, [ name |-> extractors[idx],
                                         res |-> ToDict(res) ]),
                !.flags = @ \o res.flags ]
    /\ calls' = Append(calls, [ name |-> extractors[idx],
                                target_audio |-> FilePath,
                                buffer |-> "mix" ])
    /\ selected' = selected \cup {extractors[idx]}
    /\ loads' = Append(loads, Load(TargetAudio(extractors[idx], mode,
                                               input_file_map), FALSE))
    /\ attempts' = Append(attempts, Attempt(extractors[idx],
                                            "stem_load_failed"))
    /\ idx' = idx + 1
    /\ UNCHANGED << loadvars, cmpvars, toolvars >>
    /\ UNCHANGED << extractors, pc, mode, input_file_map, scores, weights,
                    runs, prev, separations, aggregations >>

\* the stem routed to cannot be loaded: logged, continue
StemLoadFails ==
    /\ InLoop
    /\ ShouldRun(extractors[idx], mode)
    /\ TargetAudio(extractors[idx], mode, input_file_map) # FilePath
    /\ selected' = selected \cup {extractors[idx]}
    /\ loads' = Append(loads, Load(TargetAudio(extractors[idx], mode,
                                               input_file_map), FALSE))
    /\ attempts' = Append(attempts, Attempt(extractors[idx],
                                            "stem_load_failed"))
    /\ idx' = idx + 1
    /\ UNCHANGED << loadvars, cmpvars, toolvars >>
    /\ UNCHANGED << extractors, pc, mode, input_file_map, results, scores,
                    calls, weights, runs, prev, separations, aggregations >>

\* the buffer handed to extract(): the preloaded mix or the loaded stem
Call(name, m, ifm) ==
    [ name |-> name,
      target_audio |-> TargetAudio(name, m, ifm),
      buffer |-> IF TargetAudio(name, m, ifm) # FilePath
                    THEN TargetRole(name, m, ifm) ELSE "mix" ]

\* mutant: an exception of extract() ends the loop
AfterExcept_Aborts(i, n) ==
    n + 1

\* the except clause is the last statement of the loop body: the loop goes
\* on with the next of the n registered extractors
AfterExcept(i, n) ==
    i + 1

\* mutant: the except clause empties the flags gathered so far
ExtractRaises_DropsFlags ==
    /\ InLoop
    /\ ShouldRun(extractors[idx], mode)
    /\ results' = [ results EXCEPT !.flags = << >> ]
    /\ calls' = Append(calls, Call(extractors[idx], mode, input_file_map))
    /\ selected' = selected \cup {extractors[idx]}
    /\ loads' = StemLoads(loads, TargetAudio(extractors[idx], mode,
                                             input_file_map))
    /\ attempts' = Append(attempts, Attempt(extractors[idx], "raised"))
    /\ idx' = AfterExcept(idx, Len(extractors))
    /\ UNCHANGED << loadvars, cmpvars, toolvars >>
    /\ UNCHANGED << extractors, pc, mode, input_file_map, scores, weights,
                    runs, prev, separations, aggregations >>

\* extractor.extract raises: caught at the call site, logged
ExtractRaises ==
    /\ InLoop
    /\ ShouldRun(extractors[idx], mode)
    /\ calls' = Append(calls, Call(extractors[idx], mode, input_file_map))
    /\ selected' = selected \cup {extractors[idx]}
    /\ loads' = StemLoads(loads, TargetAudio(extractors[idx], mode,
                                             input_file_map))
    /\ attempts' = Append(attempts, Attempt(extractors[idx], "raised"))
    /\ idx' = AfterExcept(idx, Len(extractors))
    /\ UNCHANGED << loadvars, cmpvars, toolvars >>
    /\ UNCHANGED << extractors, pc, mode, input_file_map, results, scores,
                    weights, runs, prev, separations, aggregations >>

\* extractor.extract returns: record the result and its flags
ExtractReturns ==
    /\ InLoop
    /\ ShouldRun(extractors[idx], mode)
    /\ \E res \in ExtractResults(extractors[idx]) :
        results' =
            [ results EXCEPT
                !.features = Append(@, [ name |-> extractors[idx],
                                         res |-> ToDict(res) ]),
                !.flags = @ \o res.flags ]
    /\ calls' = Append(calls, Call(extractors[idx], mode, input_file_map))
    /\ selected' = selected \cup {extractors[idx]}
    /\ loads' = StemLoads(loads, TargetAudio(extractors[idx], mode,
                                             input_file_map))
    /\ attempts' = Append(attempts, Attempt(extractors[idx], "returned"))
    /\ idx' = idx + 1
    /\ UNCHANGED << loadvars, cmpvars, toolvars >>
    /\ UNCHANGED << extractors, pc, mode, input_file_map, scores, weights,
                    runs, prev, separations, aggregations >>

\* step 3: expand the scores and take their mean
Aggregate ==
    /\ pc = "extract"
    /\ idx > Len(extractors)
    /\ LET genre_name == ResolveGenre(results.metadata)
           expanded == Expand(scores, results.features,
                              Len(results.features), genre_name)
       IN  /\ scores' = expanded
           /\ weights' = WeightLog(results.features, Len(results.features),
                                   genre_name)
           /\ results' = [ results EXCEPT
                             !.ai_probability = MeanOrZero(expanded) ]
    /\ aggregations' = aggregations + 1
    /\ pc' = "done"
    /\ UNCHANGED << loadvars, cmpvars, toolvars >>
    /\ UNCHANGED << extractors, mode, input_file_map, idx, calls, selected,
                    runs, prev, separations, loads, attempts >>

Finished ==
    pc \in {"done", "returned", "raised"}

\* what a later aggregation over the same inputs is compared with
Remembered ==
    IF pc = "done" /\ prev = NoPrev
        THEN [ kind |-> "seen",
               features |-> results.features,
               genre |-> ResolveGenre(results.metadata),
               ai_probability |-> results.ai_probability ]
        ELSE prev

\* the call is over and its frame is dropped; the same Analyzer is called
\* again.  Nothing is assigned to scores here: the next call's own
\* initialisation is what empties it.
Return ==
    /\ Finished
    /\ pc' = "idle"
    /\ mode' = STANDARD
    /\ input_file_map' = EmptyDict
    /\ idx' = 0
    /\ results' = NoResults
    /\ calls' = << >>
    /\ selected' = {}
    /\ weights' = << >>
    /\ separations' = << >>
    /\ loads' = << >>
    /\ attempts' = << >>
    /\ aggregations' = 0
    /\ prev' = Remembered
    /\ UNCHANGED << loadvars, cmpvars, toolvars >>
    /\ UNCHANGED << extractors, scores, runs >>

Next ==
    \/ AnalyzeFileNotFound
    \/ AnalyzeLoadFailed
    \/ AnalyzeBegin
    \/ ForensicSeparation
    \/ SkipExtractor
    \/ StemLoadFails
    \/ ExtractRaises
    \/ ExtractReturns
    \/ Aggregate

\* one call of analyze_audio on a freshly constructed Analyzer
Spec ==
    Init /\ [][Next]_vars

\* up to MaxRuns calls, one after the other, on the same Analyzer
RepeatRegistries ==
    { << "tempo_stability" >>, << "silence_forensics" >> }

InitRepeat ==
    InitWith(RepeatRegistries)

NextRepeat ==
    \/ Next
    \/ Return

SpecRepeat ==
    InitRepeat /\ [][NextRepeat]_vars

(***************************************************************************)
(* Properties.                                                             *)
(***************************************************************************)
Returned ==
    pc = "done"

Features ==
    results.features

FeatureAt(i) ==
    Features[i]

PositiveFeatures ==
    { i \in DOMAIN Features : FeatureAt(i).res.score > 0 }

Prob ==
    results.ai_probability

\* C1: whenever analyze_audio returns a normal result and every recorded
\* feature score lies in [0,1], ai_probability lies in [0,1], and it is 0.0
\* when no recorded feature has a positive score.
C1_ProbabilityInUnitInterval ==
    ( /\ Returned
      /\ \A i \in DOMAIN Features :
            /\ FeatureAt(i).res.score >= 0
            /\ FeatureAt(i).res.score <= ScoreOne )
    => /\ 0 <= Prob.num
       /\ Prob.num <= Prob.den
       /\ Prob.den > 0
       /\ (PositiveFeatures = {} => Prob.num = 0)

\* C1 witness: a returned result over two features with different positive
\* scores and a probability strictly between 0 and 1
C1_Witness ==
    /\ Returned
    /\ Cardinality(PositiveFeatures) = 2
    /\ \E i, j \in PositiveFeatures :
          FeatureAt(i).res.score # FeatureAt(j).res.score
    /\ Prob.num > 0
    /\ Prob.num < Prob.den

\* how often the value v occurs among the samples
CountOf(s, v) ==
    Cardinality({ k \in DOMAIN s : s[k] = v })

RECURSIVE SumOver(_, _)
SumOver(f, S) ==
    IF S = {}
        THEN 0
        ELSE LET x == CHOOSE y \in S : TRUE
             IN  f[x] + SumOver(f, S \ {x})

\* round(weight * 10) to the nearest integer, ties to even, for a weight in
\* hundredths
RoundTenths(w) ==
    LET q == w \div 10
        r == w % 10
    IN  IF r > 5 \/ (r = 5 /\ q % 2 = 1) THEN q + 1 ELSE q

\* floor(weight * 10) for a weight in hundredths
FloorTenths(w) ==
    w \div 10

\* the samples are exactly copies[i] copies of each positive feature's score
\* and the probability is their arithmetic mean
SamplesAre(copies) ==
    /\ \A v \in { FeatureAt(i).res.score : i \in PositiveFeatures } :
          CountOf(scores, v) =
              SumOver(copies,
                      { i \in PositiveFeatures : FeatureAt(i).res.score = v })
    /\ Len(scores) = SumOver(copies, PositiveFeatures)
    /\ IF PositiveFeatures = {}
          THEN Prob.num = 0
          ELSE Prob.num * SumOver(copies, PositiveFeatures) * ScoreOne =
               Prob.den *
               SumOver([ i \in PositiveFeatures |->
                            copies[i] * FeatureAt(i).res.score ],
                       PositiveFeatures)

WeightOfFeature(i) ==
    FinalWeight(FeatureAt(i).name, ResolveGenre(results.metadata))

\* C2 as stated: each feature with score > 0 and final weight w contributes
\* max(1, round(w*10)) copies of its score, and ai_probability is the mean of
\* all copies.
C2_RoundedCopies ==
    Returned =>
        SamplesAre([ i \in PositiveFeatures |->
                        Max(1, RoundTenths(WeightOfFeature(i))) ])

\* C2 as amended: each feature with score > 0 and final weight w contributes
\* max(1, floor(w*10)) copies of its score (the product is truncated, not
\* rounded), features with score <= 0 contribute none, and ai_probability is
\* the arithmetic mean of all copies.
C2_TruncatedCopies ==
    Returned =>
        SamplesAre([ i \in PositiveFeatures |->
                        Max(1, FloorTenths(WeightOfFeature(i))) ])

\* C2 witness: a returned result in which some contributing feature has a
\* weight whose tenfold is not an integer, next to another contributing
\* feature
C2_Witness ==
    /\ Returned
    /\ Cardinality(PositiveFeatures) = 2
    /\ \E i \in PositiveFeatures : WeightOfFeature(i) % 10 # 0

\* C3: before genre adjustment the weight of a contributing feature is 4.0
\* if its name contains "forensic", otherwise 2.0 if it contains "ml" or
\* "provider", otherwise 1.0.
C3_BaseWeights ==
    Returned =>
        /\ Len(weights) = Cardinality(PositiveFeatures)
        /\ \A k \in DOMAIN weights :
              LET n == weights[k].name
              IN  /\ Contains(n, "forensic") => weights[k].base = 4 * BaseWeight
                  /\ ( /\ ~Contains(n, "forensic")
                       /\ (Contains(n, "ml") \/ Contains(n, "provider")) )
                     => weights[k].base = 2 * BaseWeight
                  /\ ( /\ ~Contains(n, "forensic")
                       /\ ~Contains(n, "ml")
                       /\ ~Contains(n, "provider") )
                     => weights[k].base = BaseWeight

\* C3 witness: a forensic and a provider feature both contributed
C3_Witness ==
    /\ Returned
    /\ \E k \in DOMAIN weights : Contains(weights[k].name, "forensic")
    /\ \E k \in DOMAIN weights : Contains(weights[k].name, "provider")

\* the multiplier the claim attaches to a name for a non-GENERAL profile
ClaimedMultiplier(n, profile) ==
    LET one == BaseWeight
        t == IF Contains(n, "tempo")
                THEN profile.tempo_stability_weight ELSE one
        m == IF Contains(n, "mfcc")
                THEN profile.mfcc_uniformity_weight ELSE one
        c == IF Contains(n, "contrast")
                THEN profile.spectral_contrast_weight ELSE one
        v == IF Contains(n, "vocal") \/ Contains(n, "quantization")
                THEN profile.vocal_artifact_weight ELSE one
    IN  << t, m, c, v >>

GenreGiven ==
    IF "genre" \in DOMAIN results.metadata
        THEN results.metadata["genre"]
        ELSE "missing"

\* C4: with a missing, unknown or GENERAL genre every weight is left
\* unchanged; for any other genre the weight is multiplied by the tempo,
\* mfcc, contrast or vocal multiplier of the profile when the name contains
\* "tempo", "mfcc", "contrast", or "vocal"/"quantization", and is unchanged
\* for all other names.
C4_GenreAdjustment ==
    Returned =>
        \A k \in DOMAIN weights :
            LET w == weights[k]
            IN  IF GenreGiven \in {"missing", GENERAL} \/ GenreGiven \notin Genre
                   THEN w.final = w.base
                   ELSE LET x == ClaimedMultiplier(w.name,
                                                   GENRE_PROFILES[GenreGiven])
                            by(a, b) == (a * b) \div BaseWeight
                        IN  w.final =
                                by(by(by(by(w.base, x[1]), x[2]), x[3]), x[4])

\* C4 witness: under a non-GENERAL genre one contributing weight was changed
\* and another was not
C4_Witness ==
    /\ Returned
    /\ GenreGiven \in Genre \ {GENERAL}
    /\ \E k \in DOMAIN weights : weights[k].final # weights[k].base
    /\ \E k \in DOMAIN weights : weights[k].final = weights[k].base

\* C5: an aggregation over the same feature results and the same genre as
\* an earlier one on this Analyzer returns the same probability.
C5_SameInputsSameProbability ==
    ( /\ Returned
      /\ prev # NoPrev
      /\ prev.features = Features
      /\ prev.genre = ResolveGenre(results.metadata) )
    => prev.ai_probability.num * Prob.den = Prob.num * prev.ai_probability.den

\* C5 witness: the third analysis repeats the inputs of the first, with a
\* positive probability
C5_Witness ==
    /\ Returned
    /\ runs = 3
    /\ prev # NoPrev
    /\ prev.features = Features
    /\ prev.genre = ResolveGenre(results.metadata)
    /\ Prob.num > 0

\* the names the mode m selects from the registry
SelectedIn(m) ==
    { n \in Range(extractors) : ShouldRun(n, m) }

\* C6: for the registry at hand, the extractors selected in QUICK mode are
\* among those selected in STANDARD mode, those among DEEP's, those among
\* FORENSIC's; and the analysis that ran selected exactly its mode's set.
C6_ModeMonotonicity ==
    /\ SelectedIn(QUICK) \subseteq SelectedIn(STANDARD)
    /\ SelectedIn(STANDARD) \subseteq SelectedIn(DEEP)
    /\ SelectedIn(DEEP) \subseteq SelectedIn(FORENSIC)
    /\ Returned => selected = SelectedIn(mode)

\* C6 witness: a QUICK analysis that selected something, on a registry where
\* STANDARD would select more
C6_Witness ==
    /\ Returned
    /\ mode = QUICK
    /\ selected # {}
    /\ SelectedIn(QUICK) # SelectedIn(STANDARD)

\* C7 as stated: in FORENSIC, DEEP and CUSTOM mode every registered extractor
\* is selected to run.
C7_EverythingSelected ==
    (Returned /\ mode \in {FORENSIC, DEEP, CUSTOM})
    => selected = Range(extractors)

\* C7 as amended: in FORENSIC mode every registered extractor is selected;
\* in DEEP and CUSTOM mode exactly the registered extractors whose name does
\* not contain "forensic" are selected.
C7_ForensicOnlyInForensicMode ==
    /\ (Returned /\ mode = FORENSIC) => selected = Range(extractors)
    /\ (Returned /\ mode \in {DEEP, CUSTOM})
       => selected = { n \in Range(extractors) : ~Contains(n, "forensic") }

\* C7 witness: a DEEP or CUSTOM analysis of a registry holding a forensic
\* and a non-forensic extractor
C7_Witness ==
    /\ Returned
    /\ mode \in {DEEP, CUSTOM}
    /\ \E n \in Range(extractors) : Contains(n, "forensic")
    /\ selected # {}

\* C8: in STANDARD mode an extractor is selected exactly when its name
\* contains none of "structural", "midi", "provider", "forensic"; in QUICK
\* mode only if its name contains "cutoff", "peak" or "tempo".
C8_StandardAndQuickSelection ==
    /\ (Returned /\ mode = STANDARD)
       => \A n \in Range(extractors) :
             n \in selected <=>
                /\ ~Contains(n, "structural")
                /\ ~Contains(n, "midi")
                /\ ~Contains(n, "provider")
                /\ ~Contains(n, "forensic")
    /\ (Returned /\ mode = QUICK)
       => \A n \in selected :
             \/ Contains(n, "cutoff")
             \/ Contains(n, "peak")
             \/ Contains(n, "tempo")

\* C8 witness: a STANDARD analysis that selected one extractor and left one
\* out
C8_Witness ==
    /\ Returned
    /\ mode = STANDARD
    /\ selected # {}
    /\ selected # Range(extractors)

\* C9: in FORENSIC mode with an "other" stem in the stem set, every
\* registered extractor is selected, every extract call of an extractor whose
\* name contains "forensic" is handed the "other" stem and never the mix, and
\* every other extract call is handed the mix.
C9_ForensicRouting ==
    (mode = FORENSIC /\ pc \in {"extract", "done"}
        /\ "other" \in DOMAIN input_file_map)
    => /\ \A k \in DOMAIN calls :
             IF Contains(calls[k].name, "forensic")
                THEN /\ calls[k].buffer = "other"
                     /\ calls[k].target_audio = input_file_map["other"]
                ELSE /\ calls[k].buffer = "mix"
                     /\ calls[k].target_audio = input_file_map["mix"]
       /\ Returned => selected = Range(extractors)

\* C9 witness: a FORENSIC analysis with an "other" stem that called a
\* forensic and a non-forensic extractor
C9_Witness ==
    /\ Returned
    /\ mode = FORENSIC
    /\ "other" \in DOMAIN input_file_map
    /\ \E k \in DOMAIN calls : Contains(calls[k].name, "forensic")
    /\ \E k \in DOMAIN calls : ~Contains(calls[k].name, "forensic")

\* C10: when "other" is absent from the stem set, a forensic extractor is run
\* on the mix buffer and the substitution is recorded in the metadata of its
\* result.
C10_SubstitutionRecorded ==
    (Returned /\ mode = FORENSIC /\ "other" \notin DOMAIN input_file_map)
    => \A i \in DOMAIN Features :
          Contains(FeatureAt(i).name, "forensic")
          => /\ \E k \in DOMAIN calls :
                   /\ calls[k].name = FeatureAt(i).name
                   /\ calls[k].buffer = "mix"
             /\ FeatureAt(i).res.metadata # {}

(***************************************************************************)
(* Analyzer.__init__ and _load_extractors, step by step.                   *)
(***************************************************************************)
\* self.extractors = {} ; nothing of an analysis or a comparison is under way
InitLoading(offers) ==
    /\ offered \in offers
    /\ extractors = << >>
    /\ loading = "imports"
    /\ loadpos = 0
    /\ owner = << >>
    /\ pc = "idle"
    /\ mode = STANDARD
    /\ input_file_map = EmptyDict
    /\ idx = 0
    /\ results = NoResults
    /\ scores = << >>
    /\ calls = << >>
    /\ selected = {}
    /\ weights = << >>
    /\ runs = 0
    /\ prev = NoPrev
    /\ separations = << >>
    /\ loads = << >>
    /\ attempts = << >>
    /\ aggregations = 0
    /\ feature_sets = << >>
    /\ comparison = NoComparison
    /\ extraction = NoExtraction
    /\ validation = NoValidation

\* one of the feature modules cannot be imported: the ImportError is caught
\* and logged, no getter was called
ImportFails ==
    /\ loading = "imports"
    /\ loading' = "import_error"
    /\ UNCHANGED << extractors, offered, loadpos, owner, callvars, cmpvars,
                    toolvars >>

\* the imports succeed and all_getters is built
ImportsDone ==
    /\ loading = "imports"
    /\ loading' = "registering"
    /\ loadpos' = 1
    /\ UNCHANGED << extractors, offered, owner, callvars, cmpvars,
                    toolvars >>

Registering ==
    /\ loading = "registering"
    /\ loadpos <= Len(offered)

\* is_available() is true: self.extractors[extractor.name] = extractor
RegisterExtractor ==
    /\ Registering
    /\ Registers(offered[loadpos])
    /\ extractors' = SetKey(extractors, offered[loadpos].name)
    /\ owner' = SetValue(extractors, owner, offered[loadpos].name, loadpos)
    /\ loadpos' = loadpos + 1
    /\ UNCHANGED << offered, loading, callvars, cmpvars,
                    toolvars >>

\* is_available() is false: on to the next extractor
ExcludeExtractor ==
    /\ Registering
    /\ ~Registers(offered[loadpos])
    /\ loadpos' = loadpos + 1
    /\ UNCHANGED << extractors, offered, loading, owner, callvars, cmpvars,
                    toolvars >>

\* the getters are exhausted
LoadReturns ==
    /\ loading = "registering"
    /\ loadpos > Len(offered)
    /\ loading' = "loaded"
    /\ UNCHANGED << extractors, offered, loadpos, owner, callvars, cmpvars,
                    toolvars >>

NextLoad ==
    \/ ImportFails
    \/ ImportsDone
    \/ RegisterExtractor
    \/ ExcludeExtractor
    \/ LoadReturns

\* the getters of this repository, at most MaxExtractors of whose
\* extractors are available
RealOffers ==
    { Offered(a) :
        a \in { x \in SUBSET Range(AllExtractors) :
                  Cardinality(x) <= MaxExtractors } }

InitLoad ==
    InitLoading(RealOffers)

SpecLoad ==
    InitLoad /\ [][NextLoad]_vars

\* a getter list in which one more extractor comes last, under a name
\* an earlier one already has
TwiceOffers ==
    { Append([ i \in DOMAIN AllExtractors |->
                 [ name |-> AllExtractors[i], available |-> i \in a ] ],
             [ name |-> AllExtractors[d],
               available |-> (Len(AllExtractors) + 1) \in a ]) :
        d \in DOMAIN AllExtractors,
        a \in { x \in SUBSET (1..(Len(AllExtractors) + 1)) :
                  Cardinality(x) <= MaxExtractors } }

InitLoadTwice ==
    InitLoading(TwiceOffers)

SpecLoadTwice ==
    InitLoadTwice /\ [][NextLoad]_vars

(***************************************************************************)
(* CrossCheckComparator.compare_sources                                    *)
(***************************************************************************)
\* at most this many sources are compared
MaxSources == 2

SourceIds ==
    { "mp3", "flac", "stream" }

\* FrequencyCutoffDetector: the rolloff means (Hz) the sources measured
Cutoffs ==
    { 15940, 15949, 16100, 21500 }

\* score > 0.5 for a cutoff given in whole Hz: _calculate_score is 0.9
\* below 10 kHz, and of its two Gaussians only the one at 16 kHz
\* (amplitude 0.8, width 1 kHz) exceeds 0.5, within 969.5 Hz of its peak
ScoreAboveHalf(cutoff_freq) ==
    \/ cutoff_freq < 10000
    \/ 15031 <= cutoff_freq /\ cutoff_freq <= 16969

\* cutoff_freq/1000 formatted  :.1f , in tenths of a kHz (none of Cutoffs
\* lies halfway between two tenths)
TenthsOfKHz(cutoff_freq) ==
    (cutoff_freq + 50) \div 100

\* f"Hard frequency cutoff detected at {cutoff_freq/1000:.1f}kHz"
CutoffFlag(cutoff_freq) ==
    CASE TenthsOfKHz(cutoff_freq) = 159 ->
             "Hard frequency cutoff detected at 15.9kHz"
      [] TenthsOfKHz(cutoff_freq) = 161 ->
             "Hard frequency cutoff detected at 16.1kHz"

\* FrequencyCutoffDetector.extract: the flags of a measurement
CutoffFlags(cutoff_freq) ==
    IF ScoreAboveHalf(cutoff_freq)
        THEN << CutoffFlag(cutoff_freq) >> ELSE << >>

\* PitchQuantizationAnalyzer's flag, for an average deviation of 0.030
PitchFlag ==
    "Unnaturally perfect pitch (Deviation: 0.030 semitones)"

\* the MFCC analyzer's flag for a variance score above 0.5
MfccFlag ==
    "Unusually low MFCC variance detected"

\* the characters of a flag
FlagSpelling(flag) ==
    CASE
    flag = "Hard frequency cutoff detected at 15.9kHz" ->
        <<"H","a","r","d"," ","f","r","e","q","u","e","n","c","y"," ","c",
          "u","t","o","f","f"," ","d","e","t","e","c","t","e","d"," ","a",
          "t"," ","1","5",".","9","k","H","z">> []
    flag = "Hard frequency cutoff detected at 16.1kHz" ->
        <<"H","a","r","d"," ","f","r","e","q","u","e","n","c","y"," ","c",
          "u","t","o","f","f"," ","d","e","t","e","c","t","e","d"," ","a",
          "t"," ","1","6",".","1","k","H","z">> []
    flag = "Unnaturally perfect pitch (Deviation: 0.030 semitones)" ->
        <<"U","n","n","a","t","u","r","a","l","l","y"," ","p","e","r","f",
          "e","c","t"," ","p","i","t","c","h"," ","(","D","e","v","i","a",
          "t","i","o","n",":"," ","0",".","0","3","0"," ","s","e","m","i",
          "t","o","n","e","s",")">> []
    flag = "Unusually low MFCC variance detected" ->
        <<"U","n","u","s","u","a","l","l","y"," ","l","o","w"," ","M","F",
          "C","C"," ","v","a","r","i","a","n","c","e"," ","d","e","t","e",
          "c","t","e","d">>

AllFlags ==
    { CutoffFlag(c) : c \in { x \in Cutoffs : ScoreAboveHalf(x) } }
        \cup { PitchFlag, MfccFlag }

UpperToLower ==
    [ A |-> "a", B |-> "b", C |-> "c", D |-> "d", E |-> "e", F |-> "f",
      G |-> "g", H |-> "h", I |-> "i", J |-> "j", K |-> "k", L |-> "l",
      M |-> "m", N |-> "n", O |-> "o", P |-> "p", Q |-> "q", R |-> "r",
      S |-> "s", T |-> "t", U |-> "u", V |-> "v", W |-> "w", X |-> "x",
      Y |-> "y", Z |-> "z" ]

\* str.lower()
Lower(text) ==
    [ i \in DOMAIN text |->
        IF text[i] \in DOMAIN UpperToLower
            THEN UpperToLower[text[i]] ELSE text[i] ]

\* mutant: only cutoff text counts
IsIndicator_CutoffOnly(text) ==
    Occurs(Lower(text), KeywordSpelling["cutoff"])

\* "cutoff" in f.lower() or "perfect pitch" in f.lower()
IsIndicator(text) ==
    \/ Occurs(Lower(text), KeywordSpelling["cutoff"])
    \/ Occurs(Lower(text),
              <<"p","e","r","f","e","c","t"," ","p","i","t","c","h">>)

\* the features of one source: what the cutoff detector measured, and
\* whether the pitch and the MFCC analyzers raised their flag
SourceFeatures(cutoff_freq, pitch, mfcc) ==
    << [ name |-> "frequency_cutoff",
         res |-> FeatureResult("frequency_cutoff",
                     IF ScoreAboveHalf(cutoff_freq) THEN 8 ELSE 0, 8, {},
                     CutoffFlags(cutoff_freq)) ],
       [ name |-> "vocal_pitch",
         res |-> FeatureResult("vocal_pitch", IF pitch THEN 9 ELSE 0, 8, {},
                     IF pitch THEN << PitchFlag >> ELSE << >>) ],
       [ name |-> "mfcc_analysis",
         res |-> FeatureResult("mfcc_analysis", IF mfcc THEN 6 ELSE 0, 6, {},
                     IF mfcc THEN << MfccFlag >> ELSE << >>) ] >>

AllSourceFeatures ==
    { SourceFeatures(c, pt, mf) :
        c \in Cutoffs, pt \in BOOLEAN, mf \in BOOLEAN }

\* the feature_sets dicts of up to MaxSources sources, in insertion order
RECURSIVE FeatureSetsOf(_)
FeatureSetsOf(n) ==
    IF n = 0
        THEN { << >> }
        ELSE { Append(fs, [ source |-> sid, features |-> ft ]) :
                 fs \in { g \in FeatureSetsOf(n - 1) : Len(g) = n - 1 },
                 sid \in SourceIds, ft \in AllSourceFeatures }
             \cup FeatureSetsOf(n - 1)

FeatureSets ==
    { fs \in FeatureSetsOf(MaxSources) :
        \A i, j \in DOMAIN fs : fs[i].source = fs[j].source => i = j }

\* source_flags of one source: the flags of its first n features
RECURSIVE SourceFlags(_, _)
SourceFlags(features, n) ==
    IF n = 0
        THEN {}
        ELSE SourceFlags(features, n - 1) \cup Range(features[n].res.flags)

\* all_flags_map, by position of the source
AllFlagsMap(fs) ==
    [ i \in DOMAIN fs |-> SourceFlags(fs[i].features, Len(fs[i].features)) ]

\* mutant: what the first source flagged is taken for common
Intersection_First(sets, n) ==
    sets[1]

\* set.intersection(*all_flags_map.values()) over the first n >= 1 sets
RECURSIVE Intersection(_, _)
Intersection(sets, n) ==
    IF n = 1
        THEN sets[1]
        ELSE Intersection(sets, n - 1) \cap sets[n]

\* mutant: a single source is compared with itself
TooFew_OnlyNone(n) ==
    n < 1

\* len(sources) < 2
TooFew(n) ==
    n < 2

\* the conclusion drawn from the common flags
Conclusion(common_flags) ==
    IF \E f \in common_flags : IsIndicator(FlagSpelling(f))
        THEN "Likely AI (Artifacts present in all sources)"
        ELSE IF common_flags = {}
            THEN "Clean / High variation between sources"
            ELSE "Inconclusive"

\* compare_sources.  The lists it makes of Python sets come in no defined
\* order; they are given here as the sets they are made of.
CompareSources(fs) ==
    IF TooFew(Len(fs))
        THEN [ kind |-> "status", status |-> "insufficient_sources" ]
        ELSE LET all_flags_map == AllFlagsMap(fs)
                 common_flags == Intersection(all_flags_map, Len(fs))
             IN  [ kind |-> "comparison",
                   common_artifacts |-> common_flags,
                   source_specific_artifacts |->
                       { [ source |-> fs[i].source,
                           flags |-> all_flags_map[i] \ common_flags ] :
                           i \in DOMAIN fs },
                   conclusion |-> Conclusion(common_flags),
                   ai_indicators_verified |->
                       { f \in common_flags :
                           IsIndicator(FlagSpelling(f)) } ]

\* a comparator and the feature sets it is about to be given
InitCompare ==
    /\ feature_sets \in FeatureSets
    /\ comparison = NoComparison
    /\ extraction = NoExtraction
    /\ validation = NoValidation
    /\ extractors = << >>
    /\ offered = << >>
    /\ loading = "imports"
    /\ loadpos = 0
    /\ owner = << >>
    /\ pc = "idle"
    /\ mode = STANDARD
    /\ input_file_map = EmptyDict
    /\ idx = 0
    /\ results = NoResults
    /\ scores = << >>
    /\ calls = << >>
    /\ selected = {}
    /\ weights = << >>
    /\ runs = 0
    /\ prev = NoPrev
    /\ separations = << >>
    /\ loads = << >>
    /\ attempts = << >>
    /\ aggregations = 0

\* fewer than two sources: the status is returned
CompareTooFew ==
    /\ comparison = NoComparison
    /\ TooFew(Len(feature_sets))
    /\ comparison' = CompareSources(feature_sets)
    /\ UNCHANGED << extractors, callvars, loadvars, feature_sets,
                    toolvars >>

\* two sources or more: the comparison is returned
Compare ==
    /\ comparison = NoComparison
    /\ ~TooFew(Len(feature_sets))
    /\ comparison' = CompareSources(feature_sets)
    /\ UNCHANGED << extractors, callvars, loadvars, feature_sets,
                    toolvars >>

NextCompare ==
    \/ CompareTooFew
    \/ Compare

SpecCompare ==
    InitCompare /\ [][NextCompare]_vars

\* one call of analyze_audio, followed on the registries of four extractors:
\* two that every mode but QUICK selects alike and the two forensic ones
FaultExtractors ==
    { "tempo_stability", "key_detection", "silence_forensics",
      "entropy_forensics" }

FaultRegistries ==
    { r \in Registries : Range(r) \subseteq FaultExtractors }

InitFaults ==
    InitWith(FaultRegistries)

SpecFaults ==
    InitFaults /\ [][Next]_vars

\* analyze_audio is straight-line code around one loop over a finite dict:
\* a call that can take a step takes it
FairSpecFaults ==
    SpecFaults /\ WF_vars(Next)

\* the separate_audio call of this analysis raised or returned no stems
SeparationFailed ==
    /\ mode = FORENSIC
    /\ Len(separations) = 1
    /\ separations[1].raised \/ DOMAIN separations[1].stems = {}

AttemptNames ==
    [ i \in DOMAIN attempts |-> attempts[i].name ]

CallOf(name) ==
    { i \in DOMAIN calls : calls[i].name = name }

\* C11: in FORENSIC mode, when stem separation raises or returns no stems,
\* the analysis does not abort: each forensic-named extractor the loop has
\* passed was run, with the mix path and the mix buffer, and the call goes
\* on to return a normal result whose ai_probability is the aggregate of
\* the expanded scores.
C11_SeparationFailureDegrades ==
    /\ [](SeparationFailed =>
            /\ pc \in {"extract", "done"}
            /\ \A i \in 1..(idx - 1) :
                  Contains(extractors[i], "forensic") =>
                      /\ CallOf(extractors[i]) # {}
                      /\ \A c \in CallOf(extractors[i]) :
                            /\ calls[c].target_audio = FilePath
                            /\ calls[c].buffer = "mix"
            /\ pc = "done" =>
                  /\ idx = Len(extractors) + 1
                  /\ results.kind = "result"
                  /\ Prob = MeanOrZero(scores))
    /\ (SeparationFailed ~> (SeparationFailed /\ pc = "done"))

C11_Witness ==
    /\ SeparationFailed
    /\ separations[1].raised
    /\ pc = "done"
    /\ \E i \in DOMAIN extractors : Contains(extractors[i], "forensic")
    /\ \E c \in DOMAIN calls :
          Contains(calls[c].name, "forensic") /\ calls[c].buffer = "mix"
    /\ Prob.num > 0

\* the extractors of the first n registry entries the mode selects, in
\* registry order
SelectedUpTo(n) ==
    SelectSeq(SubSeq(extractors, 1, n), LAMBDA e : ShouldRun(e, mode))

\* the attempts that got as far as calling extract()
Extracted ==
    SelectSeq(attempts, LAMBDA a : a.outcome # "stem_load_failed")

\* C12: during and after the extractor loop the attempts made are exactly
\* the selected extractors among those the loop has passed, each once and in
\* registry order, whether earlier attempts raised or not; extract() was
\* called once for each attempt that got past loading its audio; and the
\* aggregation has run once when the call is done, after every selected
\* extractor of the registry was attempted, and not at all before.
C12_EachSelectedAttemptedOnce ==
    pc \in {"extract", "done"} =>
        /\ AttemptNames = SelectedUpTo(idx - 1)
        /\ Range(AttemptNames) = selected
        /\ [ i \in DOMAIN calls |-> calls[i].name ]
             = [ i \in DOMAIN Extracted |-> Extracted[i].name ]
        /\ aggregations = IF pc = "done" THEN 1 ELSE 0
        /\ pc = "done" => AttemptNames = SelectedUpTo(Len(extractors))

C12_Witness ==
    /\ pc = "done"
    /\ aggregations = 1
    /\ Len(attempts) = 2
    /\ attempts[1].outcome = "raised"
    /\ attempts[2].outcome = "returned"

\* C13: in a returned result every selected extractor has an entry in
\* features, and every entry reporting an error has score 0 and
\* confidence 0.
C13_FailuresReported ==
    Returned =>
        /\ \A n \in selected : \E i \in DOMAIN Features : FeatureAt(i).name = n
        /\ \A i \in DOMAIN Features :
              "error" \in FeatureAt(i).res.metrics =>
                  /\ FeatureAt(i).res.score = 0
                  /\ FeatureAt(i).res.confidence = 0

\* C14: a call that raised FileNotFoundError loaded no audio, started no
\* separation, attempted no extractor and built no result; a call that
\* returned without aggregating is the one whose load_audio failed: it
\* returns the error dict, after that one load and nothing else, and no
\* other call returns an error dict.
C14_MissingFileRaisesBadFileReturnsError ==
    /\ pc = "raised" =>
          /\ loads = << >>
          /\ separations = << >>
          /\ attempts = << >>
          /\ calls = << >>
          /\ results = NoResults
    /\ pc = "returned" =>
          /\ results = [ kind |-> "error" ]
          /\ loads = << Load(FilePath, FALSE) >>
          /\ separations = << >>
          /\ attempts = << >>
          /\ calls = << >>
    /\ results = [ kind |-> "error" ] => pc = "returned"
    /\ (loads # << >> /\ ~loads[1].ok) => pc = "returned"

C14_Witness ==
    /\ pc = "returned"
    /\ results = [ kind |-> "error" ]
    /\ loads = << Load(FilePath, FALSE) >>
    /\ extractors # << >>

\* the offered extractors the loader has dealt with
Processed ==
    IF loading \in {"registering", "loaded"}
        THEN 1..(loadpos - 1) \ {0} ELSE {}

\* the offered extractors the registry holds
Registered ==
    Range(owner)

\* C15: at every point of registry construction the registry holds exactly
\* the extractors the getters have produced so far whose is_available() is
\* true, each under its own name and in the order offered; once
\* construction is over these are all the available extractors, whatever
\* the availability of the others, and construction never ends in anything
\* but the loaded registry (or, with the getters not importable and so no
\* extractor produced, the empty one).
C15_RegistryIsTheAvailableExtractors ==
    /\ Registered = { i \in Processed : offered[i].available }
    /\ Len(extractors) = Len(owner)
    /\ \A i \in DOMAIN extractors : extractors[i] = offered[owner[i]].name
    /\ \A i, j \in DOMAIN owner : i < j => owner[i] < owner[j]
    /\ loading \in {"imports", "registering", "loaded", "import_error"}
    /\ loading = "loaded" =>
          /\ Registered = { i \in DOMAIN offered : offered[i].available }
          /\ extractors \in Registries
    /\ loading = "import_error" => extractors = << >>

C15_Witness ==
    /\ loading = "loaded"
    /\ Len(extractors) = 2
    /\ \E i, j, k \in DOMAIN offered :
          /\ i < j /\ j < k
          /\ offered[i].available /\ ~offered[j].available
          /\ offered[k].available

\* an offered extractor that is available while an available one before it
\* has the same name
SecondUnderName(i) ==
    /\ offered[i].available
    /\ \E j \in 1..(i - 1) :
          offered[j].available /\ offered[j].name = offered[i].name

Compared ==
    comparison.kind = "comparison"

\* the flags a source carries, over all its feature results
FlagsOfSource(i) ==
    { f \in AllFlags :
        \E k \in DOMAIN feature_sets[i].features :
            f \in Range(feature_sets[i].features[k].res.flags) }

\* what the comparison reports as specific to a source
SpecificTo(sid) ==
    { f \in AllFlags :
        \E e \in comparison.source_specific_artifacts :
            e.source = sid /\ f \in e.flags }

\* C17: compare_sources given no source or a single one returns
\* {"status": "insufficient_sources"} and nothing else: no common or
\* source-specific artifacts and no conclusion.
C17_TooFewSources ==
    (comparison # NoComparison /\ Len(feature_sets) < 2) =>
        comparison = [ kind |-> "status", status |-> "insufficient_sources" ]

C17_Witness ==
    /\ Len(feature_sets) = 1
    /\ FlagsOfSource(1) # {}
    /\ comparison = [ kind |-> "status", status |-> "insufficient_sources" ]

\* the feature sets with their sources in another order
Permutations(n) ==
    { p \in [1..n -> 1..n] : \A i, j \in 1..n : p[i] = p[j] => i = j }

Reordered(p) ==
    [ i \in DOMAIN feature_sets |-> feature_sets[p[i]] ]

\* C18: given two or more sources, compare_sources returns a comparison
\* whose common_artifacts are exactly the flags every source carries and
\* whose source_specific_artifacts hold, for each source and for no one
\* else, exactly the flags of the source that are not common; so the two are
\* disjoint and together are the flags of the source, and the sources given
\* in any other order yield the same comparison.
C18_CommonAndSpecificArtifacts ==
    (comparison # NoComparison /\ Len(feature_sets) >= 2) =>
        /\ Compared
        /\ comparison.common_artifacts =
              { f \in AllFlags :
                  \A i \in DOMAIN feature_sets : f \in FlagsOfSource(i) }
        /\ { e.source : e \in comparison.source_specific_artifacts } =
              { feature_sets[i].source : i \in DOMAIN feature_sets }
        /\ Cardinality(comparison.source_specific_artifacts)
              = Len(feature_sets)
        /\ \A i \in DOMAIN feature_sets :
              LET specific == SpecificTo(feature_sets[i].source)
              IN  /\ specific =
                        FlagsOfSource(i) \ comparison.common_artifacts
                  /\ specific \cap comparison.common_artifacts = {}
                  /\ specific \cup comparison.common_artifacts =
                        FlagsOfSource(i)
        /\ \A p \in Permutations(Len(feature_sets)) :
              CompareSources(Reordered(p)) = comparison

C18_Witness ==
    /\ Compared
    /\ Len(feature_sets) = 2
    /\ comparison.common_artifacts = { PitchFlag }
    /\ SpecificTo(feature_sets[1].source) = {}
    /\ SpecificTo(feature_sets[2].source) = { MfccFlag, CutoffFlag(16100) }

\* the flags with cutoff or perfect-pitch text
CutoffTexts ==
    { CutoffFlag(c) : c \in { x \in Cutoffs : ScoreAboveHalf(x) } }

IndicatorTexts ==
    CutoffTexts \cup { PitchFlag }

\* C19: given two or more sources, the conclusion is the "Likely AI" one
\* exactly when a common flag has cutoff or perfect-pitch text, the "Clean"
\* one exactly when no flag is common, and "Inconclusive" exactly when
\* flags are common but none of them has such text; the hard-cutoff flag
\* alone being common gives "Likely AI".
C19_Conclusion ==
    Compared =>
        LET common == comparison.common_artifacts
            likely == common \cap IndicatorTexts # {}
        IN  /\ (comparison.conclusion =
                   "Likely AI (Artifacts present in all sources)") <=> likely
            /\ (comparison.conclusion =
                   "Clean / High variation between sources") <=> common = {}
            /\ (comparison.conclusion = "Inconclusive")
                   <=> (common # {} /\ ~likely)
            /\ comparison.ai_indicators_verified =
                   common \cap IndicatorTexts
            /\ (\E f \in CutoffTexts : common = { f }) =>
                   comparison.conclusion =
                       "Likely AI (Artifacts present in all sources)"

C19_Witness ==
    /\ Compared
    /\ Len(feature_sets) = 2
    /\ comparison.common_artifacts = { PitchFlag, MfccFlag }
    /\ comparison.conclusion = "Likely AI (Artifacts present in all sources)"

\* the frequency-cutoff detector raised its flag for a source
CutoffRaised(i) ==
    FlagsOfSource(i) \cap CutoffTexts # {}

\* C20: given two or more sources, if every source carries the hard-cutoff
\* flag of the frequency-cutoff detector, whatever the frequency in it, a
\* cutoff flag is among the common artifacts and the conclusion is
\* "Likely AI"; if exactly one source carries it, it is among that
\* source's specific artifacts.
C20_CutoffInEverySourceIsCommon ==
    Compared =>
        /\ (\A i \in DOMAIN feature_sets : CutoffRaised(i)) =>
              /\ comparison.common_artifacts \cap CutoffTexts # {}
              /\ comparison.conclusion =
                    "Likely AI (Artifacts present in all sources)"
        /\ \A i \in DOMAIN feature_sets :
              (/\ CutoffRaised(i)
               /\ \A j \in DOMAIN feature_sets \ {i} : ~CutoffRaised(j)) =>
                  FlagsOfSource(i) \cap CutoffTexts
                      \subseteq SpecificTo(feature_sets[i].source)

\* the recorded features with a positive score, in order
PositiveOnly ==
    SelectSeq(Features, LAMBDA f : f.res.score > 0)

PositiveScores ==
    { FeatureAt(i).res.score : i \in PositiveFeatures }

StemFailures ==
    { i \in DOMAIN attempts : attempts[i].outcome = "stem_load_failed" }

\* the flags of the first n recorded features, one after the other
RECURSIVE FlagsOfFeatures(_, _)
FlagsOfFeatures(features, n) ==
    IF n = 0
        THEN << >>
        ELSE FlagsOfFeatures(features, n - 1) \o features[n].res.flags

\* C28: an extractor whose stem could not be loaded was routed to a stem
\* and one failed load of that stem was made for it; extract() is not
\* called for it, neither on the stem nor on the mix; it has no entry in
\* features, so that the flags, which are those of the entries, hold none
\* of its own and no weight is given to it; every selected extractor is
\* attempted all the same and the call goes on to aggregate, once.
C28_UnloadableStemSkipsExtractor ==
    /\ [](\A i \in StemFailures :
            LET name == attempts[i].name
            IN  /\ TargetRole(name, mode, input_file_map) # "mix"
                /\ Cardinality({ l \in DOMAIN loads :
                      loads[l] = Load(TargetAudio(name, mode, input_file_map),
                                      FALSE) }) >= 1
                /\ CallOf(name) = {}
                /\ \A k \in DOMAIN Features : FeatureAt(k).name # name
                /\ results.flags = FlagsOfFeatures(Features, Len(Features))
                /\ \A w \in DOMAIN weights : weights[w].name # name
                /\ pc \in {"extract", "done"}
                /\ pc = "done" =>
                      /\ aggregations = 1
                      /\ AttemptNames = SelectedUpTo(Len(extractors))
                      /\ Prob = MeanOrZero(Expand(<< >>, Features,
                                     Len(Features),
                                     ResolveGenre(results.metadata))))
    /\ ((StemFailures # {}) ~> (StemFailures # {} /\ pc = "done"))

C28_Witness ==
    /\ pc = "done"
    /\ Len(attempts) = 2
    /\ attempts[1] = Attempt("silence_forensics", "stem_load_failed")
    /\ attempts[2] = Attempt("entropy_forensics", "returned")
    /\ Len(Features) = 1
    /\ Prob.num > 0

\* the attempts in which extract() returned
Completed ==
    SelectSeq(attempts, LAMBDA a : a.outcome = "returned")

\* C29: while a result is built and when it is returned, its features are
\* those of the extractors whose extract() returned, in the order they ran:
\* registered, selected by the mode, and not one that raised or was
\* skipped; its flags are the flags of these entries, one entry after the
\* other; and a step in which an extractor fails changes nothing in the
\* result.
C29_FeaturesAndFlagsOfCompleted ==
    /\ [](pc \in {"extract", "done"} =>
            /\ [ k \in DOMAIN Features |-> FeatureAt(k).name ]
                 = [ k \in DOMAIN Completed |-> Completed[k].name ]
            /\ \A k \in DOMAIN Features :
                  /\ FeatureAt(k).name \in Range(extractors)
                  /\ ShouldRun(FeatureAt(k).name, mode)
                  /\ FeatureAt(k).name \in selected
            /\ results.flags = FlagsOfFeatures(Features, Len(Features)))
    /\ [][(/\ Len(attempts') = Len(attempts) + 1
           /\ attempts'[Len(attempts')].outcome # "returned")
             => results' = results]_vars

C29_Witness ==
    /\ pc = "done"
    /\ Len(attempts) = 2
    /\ attempts[1].outcome = "returned"
    /\ attempts[2].outcome = "raised"
    /\ Len(Features) = 1
    /\ results.flags = << "suspicious" >>

\* an analysis is under way or has returned its result
Analysing ==
    pc \in {"separate", "extract", "done"}

FullScore == 4000

Hundredths(n) ==
    n * (FullScore \div 100)

\* FeatureResult(name, metrics=...): score and confidence left at their
\* dataclass defaults
DefaultResult(name, metrics) ==
    FeatureResult(name, 0, FullScore, metrics, << >>)

\* one extract() call: what was measured and the result returned
Extraction(measured, result) ==
    [ extractor |-> result.feature_name,
      measured |-> measured,
      result |-> result ]

(***************************************************************************)
(* spectral.py                                                             *)
(***************************************************************************)
\* gaussian_score(value, peak, width=1000, amplitude); np.exp(-(distance **
\* 2) / (2 * width ** 2)) is tabulated in 1/100000 at the distances the
\* measured cutoffs have from the two peaks
GaussianScore(value, peak, amplitude) ==
    LET distance == IF value < peak THEN peak - value ELSE value - peak
        exp == CASE distance = 0 -> 100000
                 [] distance = 969 -> 62533
                 [] distance = 1000 -> 60653
                 [] distance = 2000 -> 13534
                 [] distance = 3000 -> 1111
                 [] distance = 3031 -> 1012
                 [] distance = 4000 -> 34
                 [] distance >= 4969 -> 0
    IN  (amplitude * exp) \div 100000

\* FrequencyCutoffDetector._calculate_score
CutoffScore(cutoff_freq) ==
    IF cutoff_freq < 10000 THEN Hundredths(90)
    ELSE IF cutoff_freq > 21000 THEN 0
    ELSE Max(GaussianScore(cutoff_freq, 16000, Hundredths(80)),
             GaussianScore(cutoff_freq, 20000, Hundredths(40)))

\* FrequencyCutoffDetector.extract, for np.mean(rolloff) in Hz
ExtractFrequencyCutoff ==
    /\ extraction = NoExtraction
    /\ \E cutoff_freq \in { 0, 9999, 10000, 15000, 15031, 16000, 16969,
                            17000, 18000, 20000, 21000, 21001 } :
          extraction' = Extraction(
              [cutoff_freq |-> cutoff_freq],
              FeatureResult("frequency_cutoff", CutoffScore(cutoff_freq),
                  Hundredths(80), {"cutoff_frequency_hz"},
                  IF CutoffScore(cutoff_freq) > Hundredths(50)
                      THEN << "Hard frequency cutoff detected at {cutoff_freq/1000:.1f}kHz" >>
                      ELSE << >>))
    /\ UNCHANGED << extractors, callvars, loadvars, cmpvars, validation >>

\* mutant: the flag is raised only above 0.9
PeakFlags_Late(score) ==
    IF score > Hundredths(90)
        THEN << "Systematic spectral peaks detected (Var: {peak_variance:.2e})" >>
        ELSE << >>

\* if score > 0.5: flags.append(...)
PeakFlags(score) ==
    IF score > Hundredths(50)
        THEN << "Systematic spectral peaks detected (Var: {peak_variance:.2e})" >>
        ELSE << >>

\* SpectralPeakDetector.extract and _calculate_score: whether any bin lies
\* above 10 kHz, whether the spectrum there is all zero, and np.var(d2) in
\* 1/1000000
ExtractSpectralPeaks ==
    /\ extraction = NoExtraction
    /\ \E m \in
          { [high |-> FALSE, zero |-> TRUE, peak_variance |-> 0],
            [high |-> TRUE, zero |-> TRUE, peak_variance |-> 0] } \cup
          { [high |-> TRUE, zero |-> FALSE, peak_variance |-> v] :
                v \in {0, 10, 11, 100, 101, 500} } :
          LET score == IF m.peak_variance > 100 THEN Hundredths(90)
                       ELSE IF m.peak_variance > 10 THEN Hundredths(50)
                       ELSE 0
          IN  extraction' = Extraction(m,
                  IF ~m.high
                      THEN FeatureResult("spectral_peaks", 0, 0, {"error"},
                                         << >>)
                  ELSE IF m.zero
                      THEN FeatureResult("spectral_peaks", 0,
                               Hundredths(50), {"high_freq_energy"}, << >>)
                  ELSE FeatureResult("spectral_peaks", score,
                           Hundredths(70), {"peak_variance"},
                           PeakFlags(score)))
    /\ UNCHANGED << extractors, callvars, loadvars, cmpvars, validation >>

\* MFCCAnalyzer.extract, _check_variance_anomaly and _check_smoothness, for
\* np.mean(mfcc_std) and np.var(mfcc_delta) in whole units
ExtractMfcc ==
    /\ extraction = NoExtraction
    /\ \E avg_std \in {0, 4, 5, 7, 8, 12},
          delta_variance \in {0, 49, 50, 99, 100, 400} :
          LET variance_score == IF avg_std < 5 THEN Hundredths(80)
                                ELSE IF avg_std < 8 THEN Hundredths(40)
                                ELSE 0
              smoothness_score ==
                  IF delta_variance < 50 THEN Hundredths(70)
                  ELSE IF delta_variance < 100 THEN Hundredths(30)
                  ELSE 0
          IN  extraction' = Extraction(
                  [avg_std |-> avg_std, delta_variance |-> delta_variance],
                  FeatureResult("mfcc_analysis",
                      Max(variance_score, smoothness_score),
                      Hundredths(60), {"mfcc_mean"},
                      (IF variance_score > Hundredths(50)
                          THEN << "Unusually low MFCC variance detected" >>
                          ELSE << >>) \o
                      (IF smoothness_score > Hundredths(50)
                          THEN << "Unnaturally smooth MFCC transitions" >>
                          ELSE << >>)))
    /\ UNCHANGED << extractors, callvars, loadvars, cmpvars, validation >>

\* SpectralContrastAnalyzer.extract, _check_uniformity and _check_extremes,
\* for np.mean(contrast_std) and the largest and smallest band mean in dB
ExtractSpectralContrast ==
    /\ extraction = NoExtraction
    /\ \E avg_std \in {0, 1, 2, 3, 4, 9}, max_contrast \in {20, 40, 41},
          min_contrast \in {-11, -10, 15} :
          LET uniformity_score == IF avg_std < 2 THEN Hundredths(70)
                                  ELSE IF avg_std < 4 THEN Hundredths(30)
                                  ELSE 0
              extreme_score ==
                  IF max_contrast > 40 \/ min_contrast < -10
                      THEN Hundredths(60) ELSE 0
          IN  extraction' = Extraction(
                  [avg_std |-> avg_std, max_contrast |-> max_contrast,
                   min_contrast |-> min_contrast],
                  FeatureResult("spectral_contrast",
                      Max(uniformity_score, extreme_score),
                      Hundredths(50), {"contrast_mean"},
                      (IF uniformity_score > Hundredths(50)
                          THEN << "Unusually uniform spectral contrast across bands" >>
                          ELSE << >>) \o
                      (IF extreme_score > Hundredths(50)
                          THEN << "Extreme spectral contrast values detected" >>
                          ELSE << >>)))
    /\ UNCHANGED << extractors, callvars, loadvars, cmpvars, validation >>

\* ZeroCrossingRateAnalyzer.extract, for np.std(zcr) in 1/1000
ExtractZcr ==
    /\ extraction = NoExtraction
    /\ \E zcr_std \in {0, 9, 10, 19, 20, 80} :
          LET variance_score == IF zcr_std < 10 THEN Hundredths(60)
                                ELSE IF zcr_std < 20 THEN Hundredths(30)
                                ELSE 0
          IN  extraction' = Extraction(
                  [zcr_std |-> zcr_std],
                  FeatureResult("zcr_analysis", variance_score,
                      Hundredths(40), {"zcr_mean"},
                      IF variance_score > Hundredths(50)
                          THEN << "Unusually stable ZCR (std: {zcr_std:.4f})" >>
                          ELSE << >>))
    /\ UNCHANGED << extractors, callvars, loadvars, cmpvars, validation >>

(***************************************************************************)
(* temporal.py                                                             *)
(***************************************************************************)
\* librosa.frames_to_time(beats): beat times in 1/10000 s; no beat, one
\* beat, two beats, or three beats 1 s apart with the middle one displaced
BeatTimes ==
    { << >>, << 0 >>, << 0, 5000 >> } \cup
    { << 0, 5000 - d, 10000 >> :
          d \in { 0, 49, 50, 51, 125, 249, 250, 251, 300 } }

\* np.diff
Diff(times) ==
    [ i \in 1..(Len(times) - 1) |-> times[i + 1] - times[i] ]

\* np.mean of a non-empty sequence
Mean(s) ==
    SumSeq(s, Len(s)) \div Len(s)

\* np.std of a non-empty sequence: the root of the mean squared deviation,
\* rounded down
Std(s) ==
    LET variance ==
            Mean([ i \in DOMAIN s |-> (s[i] - Mean(s)) * (s[i] - Mean(s)) ])
    IN  CHOOSE r \in 0..variance :
            r * r <= variance /\ variance < (r + 1) * (r + 1)

\* cv = std_dev / avg_interval, in 1/10000; 0.0 when avg_interval == 0
CoefficientOfVariation(intervals) ==
    IF Mean(intervals) = 0
        THEN 0
        ELSE (10000 * Std(intervals)) \div Mean(intervals)

\* mutant: the score only drops to zero above cv = 0.06
TempoScore_Late(cv) ==
    IF cv < 100 THEN Hundredths(90)
    ELSE IF cv > 600 THEN 0
    ELSE (Hundredths(90) * (400 - (cv - 100))) \div 400

\* TempoStabilityAnalyzer._calculate_score, cv in 1/10000
TempoScore(cv) ==
    IF cv < 100 THEN Hundredths(90)
    ELSE IF cv > 500 THEN 0
    ELSE (Hundredths(90) * (400 - (cv - 100))) \div 400

\* TempoStabilityAnalyzer.extract
ExtractTempoStability ==
    /\ extraction = NoExtraction
    /\ \E beat_times \in BeatTimes :
          extraction' = Extraction(
              [beat_times |-> beat_times],
              IF Len(beat_times) < 2
                  THEN FeatureResult("tempo_stability", 0, 0, {"error"},
                           << "Could not detect sufficient beats for analysis" >>)
              ELSE IF Len(Diff(beat_times)) = 0
                  THEN FeatureResult("tempo_stability", 0, 0,
                                     {"tempo_bpm"}, << >>)
              ELSE LET cv == CoefficientOfVariation(Diff(beat_times))
                   IN  FeatureResult("tempo_stability", TempoScore(cv),
                           Hundredths(70), {"coefficient_of_variation"},
                           IF TempoScore(cv) > Hundredths(50)
                               THEN << "High tempo stability detected (CV: {cv:.4f})" >>
                               ELSE << >>))
    /\ UNCHANGED << extractors, callvars, loadvars, cmpvars, validation >>

\* OnsetDetectionAnalyzer.extract and _check_grid_quantization, for the
\* number of onsets, interval_cv in 1/100 and quantized_ratio in 1/100
ExtractOnsetDetection ==
    /\ extraction = NoExtraction
    /\ \E m \in
          { [onsets |-> n, interval_cv |-> 0, quantized_ratio |-> 0] :
                n \in {0, 1} } \cup
          { [onsets |-> n, interval_cv |-> c, quantized_ratio |-> q] :
                n \in {2, 5, 6},
                c \in {0, 19, 20, 70},
                q \in {0, 60, 61, 80, 81, 100} } :
          LET grid_score == IF m.onsets - 1 < 5 THEN 0
                            ELSE IF m.quantized_ratio > 80
                                THEN Hundredths(70)
                            ELSE IF m.quantized_ratio > 60
                                THEN Hundredths(40)
                            ELSE 0
              regularity_score ==
                  IF m.interval_cv < 20 THEN Hundredths(50) ELSE 0
          IN  extraction' = Extraction(m,
                  IF m.onsets < 2
                      THEN FeatureResult("onset_detection", 0, 0,
                                         {"num_onsets"}, << >>)
                      ELSE FeatureResult("onset_detection",
                               Max(grid_score, regularity_score),
                               Hundredths(50), {"num_onsets"},
                               (IF grid_score > Hundredths(50)
                                   THEN << "Grid-like onset quantization detected" >>
                                   ELSE << >>) \o
                               (IF regularity_score > Hundredths(40)
                                   THEN << "Unusually regular onset spacing (CV: {interval_cv:.3f})" >>
                                   ELSE << >>)))
    /\ UNCHANGED << extractors, callvars, loadvars, cmpvars, validation >>

\* RhythmComplexityAnalyzer.extract and _calculate_complexity_score:
\* whether the tempogram has a positive entry, its entropy in 1/100 and
\* np.var(onset_env) in 1/10
ExtractRhythmComplexity ==
    /\ extraction = NoExtraction
    /\ \E m \in
          { [data |-> FALSE, entropy |-> 0, onset_variance |-> 0] } \cup
          { [data |-> TRUE, entropy |-> e, onset_variance |-> v] :
                e \in {0, 300, 999, 1000, 1400},
                v \in {0, 5, 400, 1000, 2500} } :
          LET entropy_norm ==
                  IF m.entropy < 1000
                      THEN (m.entropy * FullScore) \div 1000
                      ELSE FullScore
              variance_norm ==
                  IF m.onset_variance < 1000
                      THEN (m.onset_variance * FullScore) \div 1000
                      ELSE FullScore
              complexity_score == (entropy_norm + variance_norm) \div 2
              ai_score == FullScore - complexity_score
          IN  extraction' = Extraction(m,
                  IF ~m.data
                      THEN FeatureResult("rhythm_complexity", 0, 0,
                                         {"error"}, << >>)
                      ELSE FeatureResult("rhythm_complexity", ai_score,
                               Hundredths(40), {"tempogram_entropy"},
                               IF ai_score > Hundredths(60)
                                   THEN << "Low rhythmic complexity (entropy: {entropy:.2f})" >>
                                   ELSE << >>))
    /\ UNCHANGED << extractors, callvars, loadvars, cmpvars, validation >>

\* BeatHistogramAnalyzer.extract, for onset_std / onset_mean in 1/100 (0
\* for a zero mean)
ExtractBeatHistogram ==
    /\ extraction = NoExtraction
    /\ \E cv \in {0, 29, 30, 49, 50, 120} :
          LET uniformity_score == IF cv < 30 THEN Hundredths(60)
                                  ELSE IF cv < 50 THEN Hundredths(30)
                                  ELSE 0
          IN  extraction' = Extraction(
                  [cv |-> cv],
                  FeatureResult("beat_histogram", uniformity_score,
                      Hundredths(50), {"onset_strength_cv"},
                      IF uniformity_score > Hundredths(50)
                          THEN << "Unusually uniform beat strengths (CV: {cv:.3f})" >>
                          ELSE << >>))
    /\ UNCHANGED << extractors, callvars, loadvars, cmpvars, validation >>

(***************************************************************************)
(* forensic.py                                                             *)
(***************************************************************************)
\* the sample rate of the buffers SilenceExtractor is given here
SampleRate == 1000

\* mutant: without a gap the mean gap counts as long
MeanGapBelow_NoGapIsLong(gap_durations, hundredths) ==
    /\ gap_durations # << >>
    /\ SumSeq(gap_durations, Len(gap_durations)) * 100
           < hundredths * SampleRate * Len(gap_durations)

\* mean_gap < hundredths/100 s, for
\* mean_gap = np.mean(gap_durations) if gap_durations else 0.0
MeanGapBelow(gap_durations, hundredths) ==
    IF gap_durations # << >>
        THEN SumSeq(gap_durations, Len(gap_durations)) * 100
                 < hundredths * SampleRate * Len(gap_durations)
        ELSE 0 < hundredths

\* mutant: the suspicion is returned as accumulated
Clamp_Off(suspicion) ==
    suspicion

\* suspicion = min(max(suspicion, 0.0), 1.0)
Clamp(suspicion) ==
    IF Max(suspicion, 0) <= FullScore THEN Max(suspicion, 0) ELSE FullScore

\* SilenceExtractor.extract, for len(y) and librosa.effects.split(y,
\* top_db=50): the non-silent intervals [start, end) of a 10 s buffer, in
\* samples
ExtractSilence ==
    /\ extraction = NoExtraction
    /\ \E intervals \in
          { << >>,
            << <<0, 10000>> >>,
            << <<0, 1900>> >>,
            << <<0, 2000>> >>,
            << <<0, 8000>> >>,
            << <<0, 8010>> >>,
            << <<0, 4000>>, <<4149, 9000>> >>,
            << <<0, 4000>>, <<4150, 9000>> >>,
            << <<0, 1000>>, <<5000, 6000>> >>,
            << <<0, 500>>, <<5000, 5500>> >>,
            << <<0, 500>>, <<600, 1000>> >>,
            << <<0, 3000>>, <<3100, 5000>>, <<5200, 7000>> >>,
            << <<0, 3000>>, <<3100, 5000>>, <<5198, 9000>> >> } :
          LET total_samples == 10000
              \* sum(end - start for start, end in intervals)
              non_silent_samples ==
                  SumSeq([ i \in DOMAIN intervals |->
                               intervals[i][2] - intervals[i][1] ],
                         Len(intervals))
              silent_samples == total_samples - non_silent_samples
              \* between the end of an interval and the start of the
              \* next; empty unless len(intervals) > 1
              gap_durations ==
                  IF Len(intervals) > 1
                      THEN [ i \in 1..(Len(intervals) - 1) |->
                                 intervals[i + 1][1] - intervals[i][2] ]
                      ELSE << >>
              \* silence_pct = silent_samples / total_samples * 100
              low == IF silent_samples * 100 < 20 * total_samples
                         THEN Hundredths(40)
                     ELSE IF silent_samples * 100 > 80 * total_samples
                         THEN 0 - Hundredths(20)
                     ELSE 0
              short == IF MeanGapBelow(gap_durations, 15)
                           THEN Hundredths(40) ELSE 0
              suspicion == Clamp(low + short)
          IN  extraction' = Extraction(
                  [total_samples |-> total_samples,
                   intervals |-> intervals],
                  FeatureResult("silence_forensics", suspicion, FullScore,
                      {"silence_percentage"},
                      IF suspicion > Hundredths(50)
                          THEN << "Low silence/short gaps detected ({silence_pct:.1f}%, {mean_gap:.3f}s)" >>
                          ELSE << >>))
    /\ UNCHANGED << extractors, callvars, loadvars, cmpvars, validation >>

\* EntropyExtractor.extract: whether the chroma sums to zero, and the
\* entropy in 1/100 bit
ExtractEntropy ==
    /\ extraction = NoExtraction
    /\ \E m \in
          { [chroma_sum_zero |-> TRUE, entropy |-> 0] } \cup
          { [chroma_sum_zero |-> FALSE, entropy |-> e] :
                e \in {0, 50, 99, 100, 750} } :
          extraction' = Extraction(m,
              IF m.chroma_sum_zero
                  THEN DefaultResult("entropy_forensics", {"entropy"})
              ELSE IF m.entropy < 100
                  THEN FeatureResult("entropy_forensics", Hundredths(80),
                           FullScore, {"shannon_entropy"},
                           << "Extremely low entropy ({entropy:.2f}): possible encoding or repetitive loop" >>)
              ELSE FeatureResult("entropy_forensics", 0, FullScore,
                                 {"shannon_entropy"}, << >>))
    /\ UNCHANGED << extractors, callvars, loadvars, cmpvars, validation >>

(***************************************************************************)
(* structural.py, vocal.py                                                 *)
(***************************************************************************)
\* StructuralComplexityAnalyzer.extract, for np.mean(rec) in 1/100
ExtractStructural ==
    /\ extraction = NoExtraction
    /\ \E density \in {0, 12, 40, 41, 100} :
          extraction' = Extraction(
              [density |-> density],
              IF density > 40
                  THEN FeatureResult("structural_analysis", Hundredths(50),
                           Hundredths(40), {"recurrence_density"},
                           << "High structural repetition (Density: {density:.2f})" >>)
                  ELSE FeatureResult("structural_analysis", 0,
                           Hundredths(40), {"recurrence_density"}, << >>))
    /\ UNCHANGED << extractors, callvars, loadvars, cmpvars, validation >>

\* PitchQuantizationAnalyzer.extract, for the number of voiced frames and
\* the mean deviation from the nearest semitone in 1/1000 semitone
ExtractVocalPitch ==
    /\ extraction = NoExtraction
    /\ \E m \in
          { [voiced |-> 0, avg_deviation |-> 0] } \cup
          { [voiced |-> 200, avg_deviation |-> d] :
                d \in {0, 30, 49, 50, 99, 100, 250, 500} } :
          LET score == IF m.avg_deviation < 50 THEN Hundredths(90)
                       ELSE IF m.avg_deviation < 100 THEN Hundredths(60)
                       ELSE 0
          IN  extraction' = Extraction(m,
                  IF m.voiced = 0
                      THEN FeatureResult("vocal_pitch", 0, 0, {"error"},
                                         << "No vocals detected in track" >>)
                      ELSE FeatureResult("vocal_pitch", score,
                               Hundredths(80), {"pitch_deviation_mean"},
                               IF score > Hundredths(50)
                                   THEN << "Unnaturally perfect pitch (Deviation: {avg_deviation:.3f} semitones)" >>
                                   ELSE << >>))
    /\ UNCHANGED << extractors, callvars, loadvars, cmpvars, validation >>

\* VibratoAnalyzer.extract, for np.sum(voiced_flag)
ExtractVibrato ==
    /\ extraction = NoExtraction
    /\ \E voiced \in {0, 99, 100, 5000} :
          extraction' = Extraction(
              [voiced |-> voiced],
              IF voiced < 100
                  THEN DefaultResult("vocal_vibrato", {"error"})
                  ELSE FeatureResult("vocal_vibrato", 0, Hundredths(30),
                           {"status"}, << "Vibrato analysis simplified" >>))
    /\ UNCHANGED << extractors, callvars, loadvars, cmpvars, validation >>

\* BreathDetector.extract, for np.sum(rms > silent_thresh) / len(rms) in
\* 1/100
ExtractBreath ==
    /\ extraction = NoExtraction
    /\ \E active_ratio \in {0, 50, 95, 96, 100} :
          LET score == IF active_ratio > 95 THEN Hundredths(60) ELSE 0
          IN  extraction' = Extraction(
                  [active_ratio |-> active_ratio],
                  FeatureResult("vocal_breath", score, Hundredths(50),
                      {"active_ratio"},
                      IF score > Hundredths(50)
                          THEN << "Unnaturally continuous vocals (few pauses/breaths)" >>
                          ELSE << >>))
    /\ UNCHANGED << extractors, callvars, loadvars, cmpvars, validation >>

(***************************************************************************)
(* harmonic.py, midi_features.py, provider_fingerprint.py,                 *)
(* transcription.py, essentia_extractor.py                                 *)
(***************************************************************************)
\* KeyDetectionAnalyzer.extract: Essentia's key, or the librosa fallback
\* when Essentia is missing or raises
ExtractKeyDetection ==
    /\ extraction = NoExtraction
    /\ \E essentia_ok \in BOOLEAN :
          extraction' = Extraction(
              [essentia_ok |-> essentia_ok],
              IF essentia_ok
                  THEN FeatureResult("key_detection", 0, Hundredths(80),
                           {"key"},
                           << "Detected Key: {key} {scale} (Strength: {strength:.2f})" >>)
                  ELSE FeatureResult("key_detection", 0, Hundredths(50),
                           {"chroma_std"},
                           << "Using basic chroma analysis (Essentia not available)" >>))
    /\ UNCHANGED << extractors, callvars, loadvars, cmpvars, validation >>

\* ChordProgressionAnalyzer.extract and _extract_tonal_complexity:
\* Essentia present or not, whether its chain raised, len(y_harm) and the
\* mean tonnetz deviation in 1/10000
ExtractChordAnalysis ==
    /\ extraction = NoExtraction
    /\ \E m \in
          { [essentia |-> FALSE, raised |-> FALSE, samples |-> 0,
             tonnetz_std |-> 0] } \cup
          { [essentia |-> TRUE, raised |-> r, samples |-> n,
             tonnetz_std |-> t] :
                r \in BOOLEAN, n \in {2047, 2048}, t \in {0, 99, 100, 900} } :
          LET score == IF m.tonnetz_std < 100 THEN Hundredths(70) ELSE 0
          IN  extraction' = Extraction(m,
                  IF ~m.essentia
                      THEN FeatureResult("chord_analysis", 0, 0, {"error"},
                               << "Chord analysis requires Essentia" >>)
                  ELSE IF m.samples < 2048
                      THEN DefaultResult("chord_analysis", {"error"})
                  ELSE FeatureResult("chord_analysis", score,
                           Hundredths(60), {"tonal_variability"},
                           (IF score > Hundredths(50)
                               THEN << "Low tonal complexity (std: {tonnetz_std:.4f})" >>
                               ELSE << >>) \o
                           (IF m.raised
                               THEN << "Essentia error: {error}" >>
                               ELSE << >>)))
    /\ UNCHANGED << extractors, callvars, loadvars, cmpvars, validation >>

\* HPSSAnalyzer.extract: a neutral feature
ExtractHpss ==
    /\ extraction = NoExtraction
    /\ extraction' = Extraction(
           [h_p_ratio |-> 0],
           FeatureResult("hpss_analysis", 0, Hundredths(60), {"h_p_ratio"},
                         << >>))
    /\ UNCHANGED << extractors, callvars, loadvars, cmpvars, validation >>

\* MIDIQuantizationAnalyzer.extract: music21 present or not, the number of
\* onsets and avg_dev / sixteenth_duration in 1/1000
ExtractMidiQuantization ==
    /\ extraction = NoExtraction
    /\ \E m \in
          { [music21 |-> FALSE, onsets |-> 0, normalized_dev |-> 0] } \cup
          { [music21 |-> TRUE, onsets |-> n, normalized_dev |-> d] :
                n \in {9, 10}, d \in {0, 49, 50, 500} } :
          LET score == IF m.normalized_dev < 50 THEN Hundredths(80) ELSE 0
          IN  extraction' = Extraction(m,
                  IF ~m.music21
                      THEN DefaultResult("midi_quantization", {"error"})
                  ELSE IF m.onsets < 10
                      THEN DefaultResult("midi_quantization",
                                         {"note_count"})
                  ELSE FeatureResult("midi_quantization", score,
                           Hundredths(60), {"grid_deviation"},
                           IF score > Hundredths(50)
                               THEN << "Hard MIDI quantization detected (Dev: {normalized_dev:.3f})" >>
                               ELSE << >>))
    /\ UNCHANGED << extractors, callvars, loadvars, cmpvars, validation >>

\* SunoFingerprintDetector.extract: whether any bin lies above 16 kHz, and
\* energy_high / energy_total in 1/1000
ExtractSunoFingerprint ==
    /\ extraction = NoExtraction
    /\ \E m \in
          { [high |-> FALSE, ratio |-> 0] } \cup
          { [high |-> TRUE, ratio |-> r] : r \in {0, 50, 51, 900} } :
          LET score == IF m.ratio > 50 THEN Hundredths(30) ELSE 0
          IN  extraction' = Extraction(m,
                  IF ~m.high
                      THEN DefaultResult("provider_fingerprint_suno",
                                         {"status"})
                      ELSE FeatureResult("provider_fingerprint_suno",
                               score, Hundredths(40), {"high_freq_ratio"},
                               IF score > 0
                                   THEN << "Possible Suno spectral sheen (Ratio: {ratio:.3f})" >>
                                   ELSE << >>))
    /\ UNCHANGED << extractors, callvars, loadvars, cmpvars, validation >>

\* UdioFingerprintDetector.extract: a placeholder
ExtractUdioFingerprint ==
    /\ extraction = NoExtraction
    /\ extraction' = Extraction(
           [placeholder |-> TRUE],
           FeatureResult("provider_fingerprint_udio", 0, 0, {}, << >>))
    /\ UNCHANGED << extractors, callvars, loadvars, cmpvars, validation >>

\* TranscriptionExtractor.extract, for how the call goes
ExtractTranscription ==
    /\ extraction = NoExtraction
    /\ \E outcome \in { "unavailable", "no_input", "raised", "ok" } :
          extraction' = Extraction(
              [outcome |-> outcome],
              IF outcome = "ok"
                  THEN DefaultResult("midi_extraction", {"estimated_key"})
                  ELSE DefaultResult("midi_extraction", {"error"}))
    /\ UNCHANGED << extractors, callvars, loadvars, cmpvars, validation >>

\* EssentiaFeatureExtractor.extract, for how the call goes
ExtractEssentia ==
    /\ extraction = NoExtraction
    /\ \E outcome \in { "unavailable", "no_input", "raised", "ok" } :
          extraction' = Extraction(
              [outcome |-> outcome],
              IF outcome = "ok"
                  THEN FeatureResult("essentia_features", 0, FullScore,
                                     {"danceability"}, << >>)
                  ELSE DefaultResult("essentia_features", {"error"}))
    /\ UNCHANGED << extractors, callvars, loadvars, cmpvars, validation >>

(***************************************************************************)
(* deepfake.py                                                             *)
(***************************************************************************)
\* MusicAIDetector.extract, for how the call goes and what the
\* audio-classification pipeline returns: a list of labelled scores, the
\* softmax of the model's logits (they add up to 1)
ExtractMusicAI ==
    /\ extraction = NoExtraction
    /\ \E o \in
          { [status |-> "unavailable", results |-> << >>],
            [status |-> "not_loaded", results |-> << >>],
            [status |-> "raised", results |-> << >>] } \cup
          { [status |-> "ok", results |-> r] : r \in
              LET ai_shares == { 0, Hundredths(50), Hundredths(50) + 1,
                                 Hundredths(80), Hundredths(80) + 1,
                                 FullScore }
              IN  { << [label |-> a, score |-> s],
                       [label |-> "human", score |-> FullScore - s] >> :
                        a \in {"ai", "AI", "fake"}, s \in ai_shares } \cup
                  { << [label |-> "human", score |-> FullScore - s],
                       [label |-> "ai", score |-> s] >> :
                        s \in ai_shares } } :
          LET \* the loop over results: the score of the first one whose
              \* label.lower() is 'ai', else 0.0
              labelled_ai ==
                  SelectSeq(o.results,
                            LAMBDA res : res.label \in {"ai", "AI"})
              ai_score == IF labelled_ai = << >>
                              THEN 0 ELSE labelled_ai[1].score
          IN  extraction' = Extraction(o,
                  IF o.status = "unavailable"
                      THEN FeatureResult("music_ai_detector", 0, 0,
                               {"error"},
                               << "Install torch and transformers to enable AI detection" >>)
                  ELSE IF o.status = "not_loaded"
                      THEN FeatureResult("music_ai_detector", 0, 0,
                               {"status"},
                               << "AI Detection model failed to load" >>)
                  ELSE IF o.status = "raised"
                      THEN FeatureResult("music_ai_detector", 0, 0,
                               {"error"}, << "AI Detection failed: {e}" >>)
                  ELSE FeatureResult("music_ai_detector", ai_score,
                           Hundredths(85), {"ai_score"},
                           IF ai_score > Hundredths(80)
                               THEN << "CRITICAL: High AI probability (90%+ match with known AI patterns)" >>
                           ELSE IF ai_score > Hundredths(50)
                               THEN << "SUSPICIOUS: Moderate AI characteristics detected" >>
                           ELSE << >>))
    /\ UNCHANGED << extractors, callvars, loadvars, cmpvars, validation >>

(***************************************************************************)
(* analyzer.py: the stereo imaging check                                   *)
(***************************************************************************)
\* a channel holds at most this many samples
MaxSamples == 2

\* the buffers handed to check_stereo_analysis: one channel (y.ndim = 1)
\* or two channels of the same length, of samples -20, 0, 19 or 20
Signals ==
    LET Channels == UNION { [ 1..n -> { -20, 0, 19, 20 } ] :
                                n \in 1..MaxSamples }
    IN  { [ndim |-> 1, channels |-> << c >>] : c \in Channels } \cup
        { [ndim |-> 2, channels |-> p] :
              p \in { q \in Channels \X Channels : Len(q[1]) = Len(q[2]) } }

\* np.sum(((left + sign * right) / 2) ** 2), times four
Energy(left, right, sign) ==
    SumSeq([ i \in DOMAIN left |->
                 (left[i] + sign * right[i]) * (left[i] + sign * right[i]) ],
           Len(left))

\* mutant: a near-mono ratio is not scored
StereoScore_NoMono(ratio) ==
    IF ratio.num > ratio.den THEN Hundredths(60)
    ELSE 0

\* the score of ratio = energy_side / energy_mid
StereoScore(ratio) ==
    IF 100 * ratio.num < ratio.den THEN Hundredths(20)
    ELSE IF ratio.num > ratio.den THEN Hundredths(60)
    ELSE 0

\* check_stereo_analysis: (score, ratio)
CheckStereoAnalysis(y) ==
    IF y.ndim < 2
        THEN [score |-> 0, ratio |-> [num |-> 0, den |-> 1]]
    ELSE LET energy_mid == Energy(y.channels[1], y.channels[2], 1)
             energy_side == Energy(y.channels[1], y.channels[2], -1)
         IN  IF energy_mid = 0
                 THEN [score |-> 0, ratio |-> [num |-> 0, den |-> 1]]
                 ELSE [score |->
                           StereoScore([num |-> energy_side,
                                        den |-> energy_mid]),
                       ratio |-> [num |-> energy_side, den |-> energy_mid]]

\* step 5 of the legacy analyze_audio: the check, and its flag
CheckStereo ==
    /\ extraction = NoExtraction
    /\ \E y \in Signals :
          LET checked == CheckStereoAnalysis(y)
          IN  extraction' = Extraction(y,
                  [ feature_name |-> "stereo_imaging",
                    score |-> checked.score,
                    ratio |-> checked.ratio,
                    flags |-> IF checked.score > Hundredths(50)
                                  THEN << "Suspicious stereo imaging (Ratio: {stereo_ratio:.2f})" >>
                                  ELSE << >> ])
    /\ UNCHANGED << extractors, callvars, loadvars, cmpvars, validation >>

NextExtract ==
    \/ ExtractFrequencyCutoff
    \/ ExtractSpectralPeaks
    \/ ExtractMfcc
    \/ ExtractSpectralContrast
    \/ ExtractZcr
    \/ ExtractTempoStability
    \/ ExtractOnsetDetection
    \/ ExtractRhythmComplexity
    \/ ExtractBeatHistogram
    \/ ExtractSilence
    \/ ExtractEntropy
    \/ ExtractStructural
    \/ ExtractVocalPitch
    \/ ExtractVibrato
    \/ ExtractBreath
    \/ ExtractKeyDetection
    \/ ExtractChordAnalysis
    \/ ExtractHpss
    \/ ExtractMidiQuantization
    \/ ExtractSunoFingerprint
    \/ ExtractUdioFingerprint
    \/ ExtractTranscription
    \/ ExtractEssentia
    \/ ExtractMusicAI
    \/ CheckStereo

\* no analysis under way: an empty registry, nothing called yet
InitTools ==
    InitWith({ << >> })

\* the extractors, called one at a time in any order
SpecExtract ==
    InitTools /\ [][NextExtract]_vars

(***************************************************************************)
(* ui/validators.py: SystemValidator.validate_inputs                       *)
(***************************************************************************)
\* at most this many paths are given
MaxPaths == 2

\* the lists of paths handed to validate_inputs; a path is given by its
\* components
FilePaths ==
    UNION { [ 1..n -> { << "a", "x.mp3" >>, << "b", "x.mp3" >>,
                        << "a", "y.wav" >> } ] : n \in 0..MaxPaths }

\* os.path.basename
Basename(p) ==
    p[Len(p)]

ValidationResult(passed, component, message, severity) ==
    [ passed |-> passed, component |-> component, message |-> message,
      severity |-> severity ]

\* mutant: every given path is reported missing
Missing_All(file_paths, existing) ==
    [ i \in DOMAIN file_paths |-> Basename(file_paths[i]) ]

\* the loop: the basenames of the paths os.path.exists rejects, in order
Missing(file_paths, existing) ==
    LET absent == SelectSeq(file_paths, LAMBDA p : p \notin existing)
    IN  [ i \in DOMAIN absent |-> Basename(absent[i]) ]

\* validate_inputs; the message is kept as its format string and arguments
ValidateInputs(file_paths, existing) ==
    LET missing == Missing(file_paths, existing)
    IN  IF missing # << >>
            THEN ValidationResult(FALSE, "Input Files",
                     [text |-> "Missing: {', '.join(missing)}",
                      args |-> missing],
                     "critical")
            ELSE ValidationResult(TRUE, "Input Files",
                     [text |-> "{len(file_paths)} files verified.",
                      args |-> << Len(file_paths) >>],
                     "info")

\* validate_inputs is called on some paths, some of which exist
Validate ==
    /\ validation = NoValidation
    /\ \E fp \in FilePaths,
          existing \in SUBSET { << "a", "x.mp3" >>, << "b", "x.mp3" >>,
                                << "a", "y.wav" >> } :
          validation' = [ kind |-> "result",
                          file_paths |-> fp,
                          existing |-> existing,
                          result |-> ValidateInputs(fp, existing) ]
    /\ UNCHANGED << extractors, callvars, loadvars, cmpvars, extraction >>

SpecValidate ==
    InitTools /\ [][Validate]_vars

(***************************************************************************)
(* Claims about the extractors and the input validator.                    *)
(***************************************************************************)
\* an extractor of the feature modules has returned a FeatureResult
FeatureReturned ==
    extraction.extractor \notin {"none", "stereo_imaging"}

\* C21: whatever an extractor measured and whichever return statement it
\* took (normal, early or error), the FeatureResult it returns has its score
\* and its confidence between 0 and 1.
C21_ScoreAndConfidenceInUnitInterval ==
    FeatureReturned =>
        /\ 0 <= extraction.result.score
        /\ extraction.result.score <= FullScore
        /\ 0 <= extraction.result.confidence
        /\ extraction.result.confidence <= FullScore

\* a buffer that is more than 80% silent with a long gap: the accumulated
\* suspicion is negative before it is clamped
C21_Witness ==
    /\ extraction.extractor = "silence_forensics"
    /\ extraction.measured.intervals = << <<0, 500>>, <<5000, 5500>> >>
    /\ extraction.result.score = 0
    /\ extraction.result.confidence = FullScore

\* the detectors the flag rule is stated for
SpecifiedDetectors ==
    { "frequency_cutoff", "spectral_peaks", "tempo_stability",
      "stereo_imaging", "silence_forensics", "entropy_forensics",
      "structural_analysis", "vocal_pitch" }

\* C22: when one of the specified detectors (frequency cutoff, spectral
\* peaks, tempo stability, stereo imaging, silence, entropy, structural
\* recurrence, vocal pitch) returns a score above 0.5, its result carries
\* at least one flag.
C22_HighScoreCarriesFlag ==
    (/\ extraction.extractor \in SpecifiedDetectors
     /\ 2 * extraction.result.score > FullScore)
        => Len(extraction.result.flags) >= 1

C22_Witness ==
    /\ extraction.extractor = "spectral_peaks"
    /\ extraction.measured.peak_variance = 101
    /\ 10 * extraction.result.score = 9 * FullScore
    /\ Len(extraction.result.flags) = 1

\* check_stereo_analysis was given two identical channels
IdenticalChannels ==
    /\ extraction.extractor = "stereo_imaging"
    /\ extraction.measured.ndim = 2
    /\ extraction.measured.channels[1] = extraction.measured.channels[2]

\* some sample of the left channel is not zero
Audible ==
    \E i \in DOMAIN extraction.measured.channels[1] :
        extraction.measured.channels[1][i] # 0

\* C23 as stated: for any two identical channels the stereo check returns
\* ratio 0.0 and score 0.2.
C23_IdenticalChannelsScoreTwoTenths ==
    IdenticalChannels =>
        /\ extraction.result.ratio.num = 0
        /\ 5 * extraction.result.score = FullScore

\* C23, amended: for two identical channels the stereo check returns ratio
\* 0.0; the score is 0.2 when some sample is not zero, and 0.0 when the
\* signal is all zeros (the mid energy is then zero and the check returns
\* early).
C23_IdenticalAudibleChannelsScoreTwoTenths ==
    IdenticalChannels =>
        /\ extraction.result.ratio.num = 0
        /\ Audible => 5 * extraction.result.score = FullScore
        /\ ~Audible => extraction.result.score = 0

C23_Witness ==
    /\ IdenticalChannels
    /\ extraction.measured.channels[1] = << 20, -20 >>
    /\ extraction.result.ratio.num = 0
    /\ 5 * extraction.result.score = FullScore

\* the tempo analyzer found at least two beats
BeatsFound ==
    /\ extraction.extractor = "tempo_stability"
    /\ Len(extraction.measured.beat_times) >= 2

\* the coefficient of variation of the measured beats, in 1/10000
MeasuredCv ==
    CoefficientOfVariation(Diff(extraction.measured.beat_times))

\* 0.9 below cv = 0.01, 0.0 above cv = 0.05, 0.9*(1 - (cv - 0.01)/0.04)
\* between, in 1/FullScore for cv in 1/10000
StatedTempoScore(cv) ==
    IF cv < 100 THEN (9 * FullScore) \div 10
    ELSE IF cv > 500 THEN 0
    ELSE (9 * FullScore * (500 - cv)) \div 4000

\* how far two numbers lie apart
Distance(a, b) ==
    IF a < b THEN b - a ELSE a - b

\* C25: with cv the standard deviation of the inter-beat intervals over
\* their mean, the tempo-stability score is 0.9 for cv < 0.01, 0.0 for
\* cv > 0.05 and 0.9*(1 - (cv - 0.01)/0.04) in between; it lies in
\* [0, 0.9], does not increase with cv, and has no jump: it is 0.9 at
\* cv = 0.01, 0.0 at cv = 0.05 and changes by at most 22.5 times the change
\* of cv.
C25_TempoScoreFormula ==
    BeatsFound =>
        LET intervals == Diff(extraction.measured.beat_times)
            cv == MeasuredCv
            score == extraction.result.score
        IN  /\ cv * Mean(intervals) = 10000 * Std(intervals)
            /\ score = StatedTempoScore(cv)
            /\ 0 <= score /\ 10 * score <= 9 * FullScore
            /\ cv = 100 => 10 * score = 9 * FullScore
            /\ cv = 500 => score = 0
            /\ \A b \in BeatTimes :
                  Len(b) >= 2 =>
                      LET other == CoefficientOfVariation(Diff(b))
                          there == TempoScore(other)
                      IN  /\ other >= cv => there <= score
                          /\ 4000 * Distance(there, score)
                                 <= 9 * FullScore * Distance(other, cv)

C25_Witness ==
    /\ BeatsFound
    /\ extraction.measured.beat_times = << 0, 4875, 10000 >>
    /\ MeasuredCv = 250
    /\ 16 * extraction.result.score = 9 * FullScore
    /\ Len(extraction.result.flags) = 1

\* the silence extractor has returned
SilenceReturned ==
    extraction.extractor = "silence_forensics"

\* the samples outside every non-silent interval
SilentSamples ==
    extraction.measured.total_samples
        - SumOver([ i \in DOMAIN extraction.measured.intervals |->
                        extraction.measured.intervals[i][2]
                            - extraction.measured.intervals[i][1] ],
                  DOMAIN extraction.measured.intervals)

\* silence% < 20, silence% > 80
LowSilence ==
    100 * SilentSamples < 20 * extraction.measured.total_samples

HighSilence ==
    100 * SilentSamples > 80 * extraction.measured.total_samples

\* the mean gap between consecutive non-silent intervals is below 0.15 s;
\* it is 0 with fewer than two intervals
ShortGaps ==
    LET iv == extraction.measured.intervals
        n == Len(iv) - 1
    IN  \/ Len(iv) < 2
        \/ 100 * SumOver([ i \in 1..n |-> iv[i + 1][1] - iv[i][2] ], 1..n)
               < 15 * SampleRate * n

\* C26: the silence score is +0.4 for silence% < 20, -0.2 for
\* silence% > 80, +0.4 for a mean gap below 0.15 s (0 with fewer than two
\* non-silent intervals), summed and clamped to [0,1]; so it is one of 0,
\* 0.2, 0.4, 0.8, and the low-silence flag is attached exactly when
\* silence% < 20 and the mean gap is below 0.15 s.
C26_SilenceScore ==
    SilenceReturned =>
        LET tenths == (IF LowSilence THEN 4 ELSE IF HighSilence THEN -2
                       ELSE 0)
                      + (IF ShortGaps THEN 4 ELSE 0)
            clamped == IF tenths < 0 THEN 0
                       ELSE IF tenths > 10 THEN 10 ELSE tenths
        IN  /\ 10 * extraction.result.score = clamped * FullScore
            /\ clamped \in {0, 2, 4, 8}
            /\ (extraction.result.flags # << >>)
                   <=> (LowSilence /\ ShortGaps)

\* two short sounds 0.1 s apart in a buffer that is 91% silent
C26_Witness ==
    /\ SilenceReturned
    /\ extraction.measured.intervals = << <<0, 500>>, <<600, 1000>> >>
    /\ HighSilence /\ ShortGaps
    /\ 5 * extraction.result.score = FullScore
    /\ extraction.result.flags = << >>

\* validate_inputs has returned
Validated ==
    validation.kind = "result"

\* the given paths that do not exist, in the order given
MissingPaths ==
    SelectSeq(validation.file_paths,
              LAMBDA p : p \notin validation.existing)

\* the names the failure message lists
NamedInMessage ==
    Range(validation.result.message.args)

\* C24 as stated: validate_inputs passes exactly when every given path
\* exists; on success the message reports the number of paths; on failure
\* the result is critical and its message names the basename of every
\* missing path and of no existing path.
C24_MessageNamesNoExistingPath ==
    Validated =>
        /\ validation.result.passed <=> MissingPaths = << >>
        /\ validation.result.passed =>
              validation.result.message.args
                  = << Len(validation.file_paths) >>
        /\ ~validation.result.passed =>
              /\ validation.result.severity = "critical"
              /\ \A i \in DOMAIN validation.file_paths :
                    LET p == validation.file_paths[i]
                    IN  (p \notin validation.existing)
                            <=> (p[Len(p)] \in NamedInMessage)

\* C24, amended: validate_inputs passes exactly when every given path
\* exists; on success the message reports the number of paths; on failure
\* the result is critical and its message lists, in the order given, the
\* basename of each missing path and nothing else, so that an existing
\* path is named only when it shares its basename with a missing one.
C24_MessageListsMissingBasenames ==
    Validated =>
        /\ validation.result.passed <=> MissingPaths = << >>
        /\ validation.result.passed =>
              validation.result.message.args
                  = << Len(validation.file_paths) >>
        /\ ~validation.result.passed =>
              /\ validation.result.severity = "critical"
              /\ validation.result.message.args
                     = [ i \in DOMAIN MissingPaths |->
                             MissingPaths[i][Len(MissingPaths[i])] ]
              /\ \A i \in DOMAIN validation.file_paths :
                    LET p == validation.file_paths[i]
                    IN  (p \in validation.existing
                             /\ p[Len(p)] \in NamedInMessage)
                            => \E j \in DOMAIN MissingPaths :
                                   MissingPaths[j][Len(MissingPaths[j])]
                                       = p[Len(p)]

\* a/x.mp3 exists, b/x.mp3 does not: the message names x.mp3
C24_Witness ==
    /\ Validated
    /\ validation.file_paths = << << "a", "x.mp3" >>, << "b", "x.mp3" >> >>
    /\ validation.existing = { << "a", "x.mp3" >> }
    /\ ~validation.result.passed
    /\ validation.result.message.args = << "x.mp3" >>

====
